---- MODULE Spec2Model ----
(***************************************************************************)
(* A model of schat's chat room (internal/chat/room.go) and of the         *)
(* per-connection session (internal/chat/session.go).                      *)
(*                                                                         *)
(* Go strings are sequences of one-character strings, so that formatting   *)
(* (Sprintf) is concatenation and "contains" is a search.  A *Client is an *)
(* index into heap; the registry r.clients maps ids to such indices.       *)
(***************************************************************************)
EXTENDS Integers, Sequences, FiniteSets, TLC

VARIABLES
    sequence,   \* Room.sequence, the atomic id counter
    clients,    \* Room.clients: id -> *Client (index into heap)
    heap,       \* every Client ever allocated, with its send channel
    colors,     \* Room.colors, the injected ColorPicker
    readers,    \* goroutines holding Room.mu.RLock
    panicked,   \* "none", or the runtime panic that ended the process
    th,         \* goroutine -> its position and locals
    calls,      \* how many calls the callers have made
    mode,       \* "flood" while a slow client's queue is being filled
    sess        \* session -> the fields of its session struct and its peer

room == <<sequence, clients, heap, colors, readers, panicked, th>>
vars == <<sequence, clients, heap, colors, readers, panicked, th, calls, mode,
          sess>>

-----------------------------------------------------------------------------
(* Bounds *)

\* the callers of the Room API make at most MaxCalls calls, not counting
\* the broadcasts that fill the slow client's queue
MaxCalls == 3

\* goroutines calling the Room API concurrently
Callers == {"g1", "g2"}
\* display names passed to AddClient ("" makes the id the name)
Names == {<<>>}
\* message texts passed to Broadcast
Texts == {<<"h", "i">>}
\* the positions of the palette that the random picker draws
Drawn == {1}

-----------------------------------------------------------------------------
(* Strings and messages *)

\* capacity of Client.send
QueueCap == 16

colorReset == "ESC[0m"

defaultColorPalette ==
    <<"ESC[31m", "ESC[32m", "ESC[33m", "ESC[34m", "ESC[35m", "ESC[36m">>

DigitChar == <<"0", "1", "2", "3", "4", "5", "6", "7", "8", "9">>

RECURSIVE Digits(_)
Digits(n) ==
    IF n < 10 THEN <<DigitChar[n + 1]>>
    ELSE Digits(n \div 10) \o <<DigitChar[(n % 10) + 1]>>

\* %03d : at least three digits, padded with zeros on the left
ZeroPad3(s) ==
    IF Len(s) >= 3 THEN s ELSE [i \in 1..(3 - Len(s)) |-> "0"] \o s

\* fmt.Sprintf("user-%03d", n)
FormatID(n) == <<"u", "s", "e", "r", "-">> \o ZeroPad3(Digits(n))

\* r.timestamp() under a fixed injected clock
Now == "2006-01-02 15:04:05"

SystemLabel == <<"[system]">>
JoinedText == " joined the chat"

\* a left notice with the text of the joined notice
LeftTextCopied == " joined the chat"

LeftText == " left the chat"

NoMsg == [ts |-> "", label |-> <<>>, text |-> <<>>]

\* fmt.Sprintf("[%s] [system] %s", ts, text)
SystemMsg(text) == [ts |-> Now, label |-> SystemLabel, text |-> text]

\* fmt.Sprintf("[%s] %s: %s", ts, label, text)
ChatMsg(label, text) == [ts |-> Now, label |-> label, text |-> text]

-----------------------------------------------------------------------------
(* Room helpers *)

Range(m) == {m[i] : i \in DOMAIN m}
Ptrs == 1..Len(heap)

\* ColorPicker.Next(): a static picker returns its colour, the random one
\* any colour of its palette
NextColor ==
    IF colors = "random"
    THEN {defaultColorPalette[i] : i \in Drawn}
    ELSE {colors}

\* make(chan string, 16) inside a fresh Client
NewClient(id, username, color) ==
    [ID |-> id, Username |-> username, Color |-> color,
     send |-> <<>>, closed |-> FALSE, closes |-> 0]

\* a counter that is read but not advanced
SeqAddStuck(s) == IF s = 0 THEN 1 ELSE s

\* r.sequence.Add(1)
SeqAdd(s) == s + 1

\* a write lock that does not wait for the readers
CanLockAnyway == TRUE

\* r.mu.Lock() can be taken: nobody holds the read lock (writers' critical
\* sections are single steps)
CanLock == readers = {}

\* the nil test left out
AfterLookupUnchecked(found) == "rm_close"

\* line 138, if client != nil: where RemoveClient goes after the lookup
AfterLookup(found) == IF found THEN "rm_close" ELSE "returning"

\* nobody is skipped
ExcludedNobody(id, excl) == FALSE

\* if id == excludeID { continue }
Excluded(id, excl) == id = excl

\* the label is the name passed in, whoever is registered
senderLabelFallback(senderID, fallbackName) == fallbackName

\* senderLabelLocked
senderLabelLocked(senderID, fallbackName) ==
    IF senderID \in DOMAIN clients
    THEN LET sender == heap[clients[senderID]] IN
         IF sender.Color = "" THEN sender.Username
         ELSE <<sender.Color>> \o sender.Username \o <<colorReset>>
    ELSE fallbackName

\* a send that puts the message at the head of the queue
TrySendFirst(q, msg) == IF Len(q) < QueueCap THEN <<msg>> \o q ELSE q

\* a send into a queue without capacity limit
TrySendUnbounded(q, msg) == Append(q, msg)

\* the queue of c after a non-blocking send of msg: full queues drop it
TrySend(q, msg) == IF Len(q) < QueueCap THEN Append(q, msg) ELSE q

\* a registration that is lost
MapPutLost(m, k, v) == m

\* a removal that leaves the entry in the map
MapDelKept(m, k) == m

\* every client ever created is counted
MapLenEver(m) == Len(heap)

\* len(m)
MapLen(m) == Cardinality(DOMAIN m)

MapPut(m, k, v) == [i \in (DOMAIN m) \cup {k} |-> IF i = k THEN v ELSE m[i]]
MapDel(m, k) == [i \in (DOMAIN m) \ {k} |-> m[i]]

-----------------------------------------------------------------------------
(* Goroutine records *)

\* pc: where the goroutine is; op, id, client, msg: the call in progress and
\* its locals; view, todo: the map being ranged over by deliverLocked and the
\* keys not yet visited; got, dropped: the clients whose queue took, or was
\* too full to take, the message; found, ok, rmsg, count: results; removed:
\* the receive was made after RemoveClient had returned for that client;
\* name: the senderName argument of Broadcast
IdleTh ==
    [pc |-> "idle", op |-> "none", id |-> <<>>, name |-> <<>>, client |-> 0,
     msg |-> NoMsg, excl |-> <<>>, view |-> <<>>, todo |-> {},
     got |-> {}, dropped |-> {}, found |-> FALSE,
     ok |-> FALSE, rmsg |-> NoMsg, removed |-> FALSE, count |-> 0,
     ret |-> "idle"]

Running == panicked = "none"

Set(t, r) == th' = [th EXCEPT ![t] = r]

\* the call of goroutine t returns to where it was made; a caller of the
\* Room API forgets the locals of the call
Return(t) ==
    Set(t, IF th[t].ret = "idle" THEN IdleTh ELSE [th[t] EXCEPT !.pc = th[t].ret])

-----------------------------------------------------------------------------
(* Room.AddClient *)

\* lines 107-117: take the next id, default the name, pick a colour and
\* allocate the client with its channel
CallAddClient(t, username, ret) ==
    /\ sequence' = SeqAdd(sequence)
    /\ LET id == FormatID(sequence')
           name == IF username = <<>> THEN id ELSE username
       IN \E color \in NextColor :
            /\ heap' = Append(heap, NewClient(id, name, color))
            /\ Set(t, [IdleTh EXCEPT !.pc = "add_lock", !.op = "AddClient",
                                     !.id = id, !.client = Len(heap) + 1,
                                     !.ret = ret])
    /\ UNCHANGED <<clients, colors, readers, panicked>>

\* lines 119-121, then line 123 up to the read lock: register under the
\* write lock and format the joined notice
AddClientRegister(t) ==
    /\ th[t].pc = "add_lock"
    /\ CanLock
    /\ clients' = MapPut(clients, th[t].id, th[t].client)
    /\ Set(t, [th[t] EXCEPT
              !.pc = "sys_rlock",
              !.msg = SystemMsg(heap[th[t].client].Username \o <<JoinedText>>)])
    /\ UNCHANGED <<sequence, heap, colors, readers, panicked>>

-----------------------------------------------------------------------------
(* Room.broadcastSystem and Room.deliverLocked *)

\* lines 161-163: r.mu.RLock(), then deliverLocked("", msg) starts ranging
\* over r.clients
SystemRLock(t) ==
    /\ th[t].pc = "sys_rlock"
    /\ readers' = readers \cup {t}
    /\ Set(t, [th[t] EXCEPT !.pc = "deliver", !.excl = <<>>,
                            !.view = clients, !.todo = DOMAIN clients])
    /\ UNCHANGED <<sequence, clients, heap, colors, panicked>>

\* one iteration of the range loop of deliverLocked (map order is random):
\* skip the excluded id, otherwise tryDeliver.  A send on a closed channel
\* panics.
DeliverOne(t) ==
    /\ th[t].pc = "deliver"
    /\ \E id \in th[t].todo :
         IF Excluded(id, th[t].excl)
         THEN /\ Set(t, [th[t] EXCEPT !.todo = @ \ {id}])
              /\ UNCHANGED <<heap, panicked>>
         ELSE LET c == th[t].view[id] IN
              IF heap[c].closed
              THEN /\ panicked' = "send on closed channel"
                   /\ UNCHANGED <<heap, th>>
              ELSE /\ heap' = [heap EXCEPT ![c].send = TrySend(@, th[t].msg)]
                   /\ Set(t, [th[t] EXCEPT
                             !.todo = @ \ {id},
                             !.got = IF Len(heap[c].send) < QueueCap
                                     THEN @ \cup {c} ELSE @,
                             !.dropped = IF Len(heap[c].send) < QueueCap
                                         THEN @ ELSE @ \cup {c}])
                   /\ UNCHANGED panicked
    /\ UNCHANGED <<sequence, clients, colors, readers>>

\* the range loop is over: r.mu.RUnlock() and return to the caller
DeliverDone(t) ==
    /\ th[t].pc = "deliver"
    /\ th[t].todo = {}
    /\ readers' = readers \ {t}
    /\ Return(t)
    /\ UNCHANGED <<sequence, clients, heap, colors, panicked>>

-----------------------------------------------------------------------------
(* Room.RemoveClient *)

\* lines 129-138: delete the entry under the write lock; an unknown id
\* leaves client nil and the call returns
CallRemoveClient(t, id, ret) ==
    /\ CanLock
    /\ IF id \in DOMAIN clients
       THEN /\ clients' = MapDel(clients, id)
            /\ Set(t, [IdleTh EXCEPT !.pc = AfterLookup(TRUE),
                                     !.op = "RemoveClient",
                                     !.id = id, !.found = TRUE,
                                     !.client = clients[id], !.ret = ret])
       ELSE /\ Set(t, [IdleTh EXCEPT !.pc = AfterLookup(FALSE),
                                     !.op = "RemoveClient",
                                     !.id = id, !.ret = ret])
            /\ UNCHANGED clients
    /\ UNCHANGED <<sequence, heap, colors, readers, panicked>>

\* line 139 and line 140 up to the read lock: close(client.send), which
\* panics on a closed channel, and format the left notice
RemoveClientClose(t) ==
    /\ th[t].pc = "rm_close"
    /\ LET c == th[t].client IN
       IF c = 0
       THEN /\ panicked' = "nil pointer dereference"
            /\ UNCHANGED <<heap, th>>
       ELSE IF heap[c].closed
       THEN /\ panicked' = "close of closed channel"
            /\ UNCHANGED <<heap, th>>
       ELSE /\ heap' = [heap EXCEPT ![c].closed = TRUE, ![c].closes = @ + 1]
            /\ Set(t, [th[t] EXCEPT
                      !.pc = "sys_rlock",
                      !.msg = SystemMsg(heap[c].Username \o <<LeftText>>)])
            /\ UNCHANGED panicked
    /\ UNCHANGED <<sequence, clients, colors, readers>>

-----------------------------------------------------------------------------
(* Room.Broadcast *)

\* lines 146-152: r.mu.RLock(), format the message with the sender's label
\* and start deliverLocked(senderID, msg)
CallBroadcast(t, senderID, senderName, text, ret) ==
    /\ readers' = readers \cup {t}
    /\ Set(t, [IdleTh EXCEPT
              !.pc = "deliver", !.op = "Broadcast",
              !.id = senderID, !.name = senderName, !.excl = senderID,
              !.found = senderID \in DOMAIN clients,
              !.msg = ChatMsg(senderLabelLocked(senderID, senderName), text),
              !.view = clients, !.todo = DOMAIN clients,
              !.ret = ret])
    /\ UNCHANGED <<sequence, clients, heap, colors, panicked>>

-----------------------------------------------------------------------------
(* Room.ClientCount and the reader of Client.Send() *)

\* lines 98-102: the length of the map, read under the read lock
ClientCount(t, ret) ==
    /\ Set(t, [IdleTh EXCEPT !.pc = "returning", !.op = "ClientCount",
                             !.count = MapLen(clients),
                             !.ret = ret])
    /\ UNCHANGED <<sequence, clients, heap, colors, readers, panicked>>

\* RemoveClient has closed the queue of c and has returned
RemoveReturned(c) ==
    /\ heap[c].closed
    /\ \A u \in DOMAIN th : ~(th[u].op = "RemoveClient" /\ th[u].client = c)

\* msg, ok := <-client.Send() when it does not block: the oldest buffered
\* message, or the closure of a closed and empty channel
Receive(t, c, ret) ==
    /\ heap[c].send # <<>> \/ heap[c].closed
    /\ IF heap[c].send # <<>>
       THEN /\ heap' = [heap EXCEPT ![c].send = Tail(@)]
            /\ Set(t, [IdleTh EXCEPT !.pc = "returning", !.op = "Receive",
                                     !.client = c, !.ok = TRUE,
                                     !.rmsg = Head(heap[c].send),
                                     !.removed = RemoveReturned(c),
                                     !.ret = ret])
       ELSE /\ Set(t, [IdleTh EXCEPT !.pc = "returning", !.op = "Receive",
                                     !.client = c, !.ok = FALSE,
                                     !.removed = RemoveReturned(c),
                                     !.ret = ret])
            /\ UNCHANGED heap
    /\ UNCHANGED <<sequence, clients, colors, readers, panicked>>

\* a call that has its result returns
ReturnResult(t) ==
    /\ th[t].pc = "returning"
    /\ Return(t)
    /\ UNCHANGED <<sequence, clients, heap, colors, readers, panicked>>

-----------------------------------------------------------------------------
(* The room under concurrent callers *)

Init ==
    /\ sequence = 0
    /\ clients = <<>>
    /\ heap = <<>>
    /\ colors \in {"", "random"}
    /\ readers = {}
    /\ panicked = "none"
    /\ th = [t \in Callers |-> IdleTh]
    /\ calls = 0
    /\ mode \in {"free", "flood"}
    /\ sess = <<>>

Idle(t) == th[t].pc = "idle"

\* what a caller may name: a client created so far, or one that never is
Ghost == [ID |-> FormatID(0), Username |-> <<"g">>]
Known == {[ID |-> heap[c].ID, Username |-> heap[c].Username] : c \in Ptrs}
             \cup {Ghost}

\* a caller makes one more call
Call(t) ==
    /\ Idle(t)
    /\ calls < MaxCalls
    /\ calls' = calls + 1

AddClient(t) == Call(t) /\ \E u \in Names : CallAddClient(t, u, "idle")

RemoveClient(t) == Call(t) /\ \E k \in Known : CallRemoveClient(t, k.ID, "idle")

Broadcast(t) ==
    /\ Call(t)
    /\ \E k \in Known, x \in Texts :
         CallBroadcast(t, k.ID, k.Username, x, "idle")

Count(t) == Call(t) /\ ClientCount(t, "idle")

Read(t) == Call(t) /\ \E c \in Ptrs : Receive(t, c, "idle")

RoomStep(t) ==
    \/ AddClientRegister(t)
    \/ SystemRLock(t)
    \/ DeliverOne(t)
    \/ DeliverDone(t)
    \/ RemoveClientClose(t)
    \/ ReturnResult(t)

\* the slow consumer: before anything else happens, the flooder registers a
\* client whose queue nobody reads and broadcasts until that queue is full
Flooder == "g1"

FloodRegister ==
    /\ heap = <<>>
    /\ AddClient(Flooder)
    /\ UNCHANGED mode

FloodBroadcast ==
    /\ heap # <<>>
    /\ Idle(Flooder)
    /\ Len(heap[1].send) < QueueCap
    /\ \E x \in Texts :
         CallBroadcast(Flooder, Ghost.ID, Ghost.Username, x, "idle")
    /\ UNCHANGED <<calls, mode>>

FloodStep == RoomStep(Flooder) /\ UNCHANGED <<calls, mode>>

FloodOver ==
    /\ heap # <<>>
    /\ Idle(Flooder)
    /\ Len(heap[1].send) = QueueCap
    /\ mode' = "free"
    /\ UNCHANGED <<room, calls>>

Flood ==
    /\ mode = "flood"
    /\ (FloodRegister \/ FloodBroadcast \/ FloodStep \/ FloodOver)

Free ==
    /\ mode = "free"
    /\ UNCHANGED mode
    /\ \E t \in Callers :
         \/ AddClient(t)
         \/ RemoveClient(t)
         \/ Broadcast(t)
         \/ Count(t)
         \/ Read(t)
         \/ (RoomStep(t) /\ UNCHANGED calls)

Next == Running /\ (Flood \/ Free) /\ UNCHANGED sess

Spec == Init /\ [][Next]_vars

\* a liveness claim is checked under weak fairness of every goroutine's
\* steps: the Go scheduler runs every runnable goroutine
FairSpec ==
    /\ Spec
    /\ \A t \in Callers : WF_vars(Running /\ RoomStep(t) /\ UNCHANGED <<calls, mode, sess>>)

-----------------------------------------------------------------------------
(* Vocabulary of the claims *)

InFanout(t) == th[t].pc = "deliver"
FanoutDone(t) == th[t].pc = "deliver" /\ th[t].todo = {}

\* goroutine t runs one iteration of deliverLocked in this step
Delivers(t) == th[t].pc = "deliver" /\ th'[t].todo # th[t].todo

\* the id that iteration visits
Visited(t) == CHOOSE id \in th[t].todo : id \notin th'[t].todo

Contains(s, w) == \E i \in 1..Len(s) : s[i] = w

IsSystem(m) == m.label = <<"[system]">>
IsLeft(m) == IsSystem(m) /\ Contains(m.text, " left the chat")
IsJoined(m) == IsSystem(m) /\ Contains(m.text, " joined the chat")

DigitVal(ch) == CHOOSE d \in 0..9 : DigitChar[d + 1] = ch

RECURSIVE ParseNat(_)
ParseNat(s) ==
    IF s = <<>> THEN 0
    ELSE ParseNat(SubSeq(s, 1, Len(s) - 1)) * 10 + DigitVal(s[Len(s)])

\* the number in "user-<n>"
IDNumber(id) == ParseNat(SubSeq(id, 6, Len(id)))

-----------------------------------------------------------------------------
(* C1 *)

C1_Recipients(t) == {th[t].view[i] : i \in (DOMAIN th[t].view) \ {th[t].id}}

C1_State ==
    \A t \in DOMAIN th :
        (th[t].op = "Broadcast" /\ InFanout(t)) =>
            /\ th[t].view = clients
            /\ th[t].got \cap th[t].dropped = {}
            /\ th[t].got \cup th[t].dropped \subseteq C1_Recipients(t)
            /\ th[t].id \in DOMAIN clients =>
                   clients[th[t].id] \notin th[t].got \cup th[t].dropped
            /\ th[t].todo = {} =>
                   th[t].got \cup th[t].dropped = C1_Recipients(t)

C1_Step ==
    \A t \in DOMAIN th :
        (th[t].op = "Broadcast" /\ Delivers(t)) =>
            LET id == Visited(t)
                c == th[t].view[id]
            IN  IF id = th[t].id
                THEN heap' = heap
                ELSE IF Len(heap[c].send) < QueueCap
                THEN /\ heap' = [heap EXCEPT ![c].send = Append(@, th[t].msg)]
                     /\ th'[t].got = th[t].got \cup {c}
                     /\ c \notin th[t].got
                ELSE /\ heap' = heap
                     /\ th'[t].dropped = th[t].dropped \cup {c}

\* C1: a Broadcast never enqueues the message on the sender's queue; it
\* enqueues it exactly once on the queue of every other registered client
\* whose queue is not full at the attempt; a full queue is skipped and no
\* other queue is affected by that.
C1_BroadcastDelivery == []C1_State /\ [][C1_Step]_vars

\* a Broadcast has gone round: one recipient took the message, another one,
\* whose queue was full, was skipped
C1_Witness ==
    \E t \in DOMAIN th :
        /\ th[t].op = "Broadcast" /\ FanoutDone(t)
        /\ th[t].got # {} /\ th[t].dropped # {}

-----------------------------------------------------------------------------
(* C2 *)

\* C2: whatever the interleaving of AddClient, RemoveClient, Broadcast and
\* the system notices, nothing is sent on a closed queue and no queue is
\* closed twice (either would panic), also when two RemoveClient calls for
\* the same id race.
C2_NoSendAfterCloseNoDoubleClose ==
    /\ panicked = "none"
    /\ \A c \in Ptrs : heap[c].closes <= 1
    /\ \A c \in Ptrs : heap[c].closed <=> heap[c].closes = 1
    /\ \A t \in DOMAIN th :
           InFanout(t) => \A id \in th[t].todo : ~heap[th[t].view[id]].closed

\* two RemoveClient calls for one id have raced: one found the client,
\* closed its queue and is fanning out the left notice, the other found
\* nothing
C2_Witness ==
    \E t, u \in DOMAIN th :
        /\ th[t].op = "RemoveClient" /\ th[t].found /\ InFanout(t)
        /\ heap[th[t].client].closed
        /\ th[u].op = "RemoveClient" /\ ~th[u].found /\ th[u].id = th[t].id
        /\ th[u].pc = "returning"

-----------------------------------------------------------------------------
(* C3 *)

\* a goroutine has read from the queue of a client after RemoveClient had
\* returned for it
C3_ReadAfterRemove(t) ==
    th[t].op = "Receive" /\ th[t].pc = "returning" /\ th[t].removed

\* C3 as stated: once RemoveClient(id) has returned for a registered id,
\* a read from the queue observes closure, no further message
C3_ReadObservesClosure ==
    \A t \in DOMAIN th : C3_ReadAfterRemove(t) => ~th[t].ok

C3_State ==
    /\ panicked = "none"
    /\ \A c \in Ptrs :
           RemoveReturned(c) =>
               /\ heap[c].closes = 1
               /\ c \notin Range(clients)
    /\ \A t \in DOMAIN th :
           (C3_ReadAfterRemove(t) /\ ~th[t].ok) =>
               heap[th[t].client].send = <<>>

C3_Step ==
    \A c \in Ptrs :
        heap[c].closed =>
            /\ heap'[c].closed
            /\ heap'[c].closes = heap[c].closes
            /\ \/ heap'[c].send = heap[c].send
               \/ /\ heap[c].send # <<>>
                  /\ heap'[c].send = Tail(heap[c].send)
            /\ \A t \in DOMAIN th :
                   (th'[t] # th[t] /\ th'[t].op = "Receive" /\ th'[t].client = c
                       /\ th'[t].pc = "returning") =>
                       th'[t].ok = (heap[c].send # <<>>)

\* C3 (amended): once RemoveClient(id) has returned for a registered id, the
\* client is out of the registry, its queue has been closed exactly once and
\* takes no further message; the reads that follow return the messages that
\* were buffered at closure, in order, and then observe closure, without
\* error.
C3_ClosedOnceThenDrained == []C3_State /\ [][C3_Step]_vars

\* a read made after RemoveClient had returned has observed the closure of
\* a queue that was closed once
C3_Witness ==
    \E t \in DOMAIN th :
        /\ C3_ReadAfterRemove(t)
        /\ ~th[t].ok
        /\ heap[th[t].client].closes = 1

-----------------------------------------------------------------------------
(* C4 *)

\* goroutine t calls RemoveClient with an id that is not registered
C4_RemovesUnknown(t) ==
    /\ th[t].pc = "idle"
    /\ th'[t].op = "RemoveClient"
    /\ th'[t].id \notin DOMAIN clients

C4_Step ==
    \A t \in DOMAIN th :
        /\ C4_RemovesUnknown(t) =>
               /\ clients' = clients
               /\ heap' = heap
               /\ panicked' = panicked
               /\ th'[t].pc = "returning"
        /\ (th[t].op = "RemoveClient" /\ ~th[t].found /\ th'[t] # th[t]) =>
               /\ th'[t].pc = "idle"
               /\ clients' = clients
               /\ heap' = heap
               /\ panicked' = panicked

\* C4: RemoveClient(id) for an id that was never registered or has been
\* removed leaves the registry, every queue's content and every queue's
\* open or closed status as they are, and returns without a notice.
C4_RemoveUnknownIsNoOp == [][C4_Step]_vars

\* RemoveClient is returning from a call that found no client under its
\* id, while a client with a message in its queue is registered
C4_Witness ==
    \E t \in DOMAIN th :
        /\ th[t].op = "RemoveClient" /\ th[t].pc = "returning"
        /\ ~th[t].found
        /\ \E c \in Range(clients) : heap[c].send # <<>>

-----------------------------------------------------------------------------
(* C5 *)

\* C5: the ids assigned by AddClient, concurrent calls and calls after a
\* removal included, are pairwise distinct and their numbers grow strictly
\* in the order of generation; the id of a removed client is not assigned
\* again.
C5_IdsDistinctIncreasing ==
    \A i, j \in Ptrs :
        i < j =>
            /\ heap[i].ID # heap[j].ID
            /\ IDNumber(heap[i].ID) < IDNumber(heap[j].ID)
            /\ heap[j].ID \notin {heap[k].ID : k \in 1..(j - 1)}

\* the latest id has been generated when an earlier client had been removed
C5_Witness ==
    \E i, j \in Ptrs, t \in DOMAIN th :
        /\ i < j
        /\ RemoveReturned(i)
        /\ j = Len(heap)
        /\ th[t].op = "AddClient" /\ th[t].client = j /\ th[t].pc = "add_lock"

-----------------------------------------------------------------------------
(* C6 *)

\* AddClient has fanned out its joined notice and is about to return
C6_Joined(t) == th[t].op = "AddClient" /\ FanoutDone(t)

\* C6 as stated: when AddClient returns, the new client's own queue has
\* received the joined notice, and so has every other registered client
C6_EveryoneGotJoined ==
    \A t \in DOMAIN th :
        C6_Joined(t) =>
            /\ th[t].client \in th[t].got
            /\ \A c \in Range(clients) : c \in th[t].got

\* a RemoveClient call has taken client c out of the registry
C6_Removed(c) ==
    \E u \in DOMAIN th : th[u].op = "RemoveClient" /\ th[u].client = c

C6_State ==
    \A t \in DOMAIN th :
        /\ (th[t].op = "AddClient" /\ th[t].pc \in {"sys_rlock", "deliver"}) =>
               \/ th[t].client \in Range(clients)
               \/ C6_Removed(th[t].client)
               \/ heap[th[t].client].closed
        /\ (th[t].op = "AddClient" /\ InFanout(t)) =>
               /\ th[t].excl = <<>>
               /\ th[t].view = clients
               /\ IsJoined(th[t].msg)
        /\ C6_Joined(t) =>
               /\ th[t].got \cup th[t].dropped = Range(clients)
               /\ th[t].got \cap th[t].dropped = {}

C6_Step ==
    \A t \in DOMAIN th :
        (th[t].op = "AddClient" /\ Delivers(t)) =>
            LET c == th[t].view[Visited(t)] IN
            IF Len(heap[c].send) < QueueCap
            THEN /\ heap' = [heap EXCEPT ![c].send = Append(@, th[t].msg)]
                 /\ th'[t].got = th[t].got \cup {c}
            ELSE /\ heap' = heap
                 /\ th'[t].dropped = th[t].dropped \cup {c}

\* C6 (amended): AddClient registers the new client before it broadcasts
\* the joined notice and excludes no one from it: when AddClient returns,
\* the notice has been enqueued once on the queue of every registered
\* client, the new client included unless it has been removed in between,
\* except on the queues that were full at the attempt, where it is dropped.
C6_JoinedToAllWithRoom == []C6_State /\ [][C6_Step]_vars

\* the joined notice of a new client has gone round: the new client took
\* it, a client with a full queue did not
C6_Witness ==
    \E t \in DOMAIN th :
        /\ C6_Joined(t)
        /\ th[t].client \in th[t].got
        /\ th[t].dropped # {}

-----------------------------------------------------------------------------
(* C7 *)

\* RemoveClient has fanned out its left notice and is about to return
C7_Left(t) == th[t].op = "RemoveClient" /\ FanoutDone(t)

\* C7 as stated: when a registered client is removed, every client that
\* remains registered receives one left notice for it; the removed client
\* receives none and its queue is closed
C7_EveryoneGotLeft ==
    \A t \in DOMAIN th :
        C7_Left(t) =>
            /\ \A c \in Range(clients) : c \in th[t].got
            /\ th[t].client \notin th[t].got
            /\ heap[th[t].client].closed

C7_State ==
    \A t \in DOMAIN th :
        /\ (th[t].op = "RemoveClient" /\ InFanout(t)) =>
               /\ th[t].view = clients
               /\ IsLeft(th[t].msg)
               /\ th[t].client \notin Range(th[t].view)
               /\ th[t].client \notin th[t].got \cup th[t].dropped
               /\ heap[th[t].client].closed
        /\ C7_Left(t) =>
               /\ th[t].got \cup th[t].dropped = Range(clients)
               /\ th[t].got \cap th[t].dropped = {}

C7_Step ==
    \A t \in DOMAIN th :
        (th[t].op = "RemoveClient" /\ Delivers(t)) =>
            LET c == th[t].view[Visited(t)] IN
            IF Len(heap[c].send) < QueueCap
            THEN /\ heap' = [heap EXCEPT ![c].send = Append(@, th[t].msg)]
                 /\ th'[t].got = th[t].got \cup {c}
                 /\ c \notin th[t].got
            ELSE /\ heap' = heap
                 /\ th'[t].dropped = th[t].dropped \cup {c}

\* C7 (amended): when a registered client is removed by RemoveClient, each
\* client that is registered when the notice is fanned out and whose queue
\* is not full receives exactly one new system message containing "left"
\* for that removal; a full queue does not receive it; the removed client's
\* queue receives no left notice and is closed.
C7_LeftToAllWithRoom == []C7_State /\ [][C7_Step]_vars

\* the left notice of a removed client has gone round and a remaining
\* client took it
C7_Witness ==
    \E t \in DOMAIN th :
        /\ C7_Left(t)
        /\ th[t].got # {}

-----------------------------------------------------------------------------
(* C8 *)

C8_State ==
    /\ \A c \in Ptrs : Len(heap[c].send) <= QueueCap
    /\ \A t \in DOMAIN th :
           (InFanout(t) /\ th[t].todo # {}) => ENABLED DeliverOne(t)

C8_Completes ==
    \A t \in Callers : (th[t].pc # "idle") ~> (th[t].pc = "idle")

\* C8: a client queue never holds more than 16 messages, a delivery never
\* waits for room in a queue, and every Broadcast, AddClient and
\* RemoveClient call returns, also when every recipient's queue is full and
\* nobody reads.
C8_BoundedNonBlocking == []C8_State /\ C8_Completes

\* a fan-out has gone round while the queue of every registered client was
\* full: nobody took the message
C8_Witness ==
    \E t \in DOMAIN th :
        /\ FanoutDone(t)
        /\ th[t].dropped # {} /\ th[t].got = {}
        /\ \A c \in Range(clients) : Len(heap[c].send) = QueueCap

-----------------------------------------------------------------------------
(* The session (session.go): bounds, the connection and the struct *)

\* the SSH sessions served, next to one participant that registers through
\* the Room API and never reads its queue
Sessions == {"s1"}
\* out-of-band requests the peer of a session sends
MaxReqs == 2
\* input characters the peer of a session sends
MaxInput == 2
\* input characters the peer sends to the session whose line editing is
\* followed
MaxKeys == 3
\* input characters the peer sends to the session whose submitted lines are
\* followed
MaxStrokes == 4

\* the goroutines of a session: the one running run(), the outbound relay,
\* the request pump, and a second invoker of cleanupSession
Roles == {"main", "relay", "pump", "again"}
Guest == <<"room", "guest">>
Threads == (Sessions \X Roles) \cup {Guest}
Main(s) == <<s, "main">>
Relay(s) == <<s, "relay">>
Pump(s) == <<s, "pump">>
Again(s) == <<s, "again">>

ReqTypes == {"shell", "pty-req", "env", "window-change", "signal", "exec"}

ctrlC == "0x03"
ctrlD == "0x04"
backspace == "0x08"
deleteChar == "0x7f"
Printable == {"h", "i", " "}
Runes == {"h", "\r", ctrlC, ctrlD}
\* the keys of the session whose line editing is followed
Keys == {"h", " ", "\r", "\n", ctrlC, ctrlD, backspace}
\* the keys of the session whose submitted lines are followed
OrderKeys == {"h", "i", "\r"}

\* unicode.IsPrint on the characters of the model
IsPrint(r) == r \in Printable

IsSpace(r) == r \in {" ", "\t", "\r", "\n"}

RECURSIVE TrimLeft(_)
TrimLeft(x) ==
    IF x # <<>> /\ IsSpace(Head(x)) THEN TrimLeft(Tail(x)) ELSE x

RECURSIVE TrimRight(_)
TrimRight(x) ==
    IF x # <<>> /\ IsSpace(x[Len(x)])
    THEN TrimRight(SubSeq(x, 1, Len(x) - 1)) ELSE x

\* the text is taken as it is
TrimSpaceNone(x) == x

\* strings.TrimSpace
TrimSpace(x) == TrimRight(TrimLeft(x))

\* lineBuffer.Append, line_buffer.go lines 20-24
AppendRune(b, r) == Append(b, r)

\* the content stays
ResetKept(b) == b

\* lineBuffer.Reset, lines 34-38
Reset(b) == <<>>

\* the content is returned and stays in the buffer
DrainKept(b) == [text |-> b, data |-> b]

\* lineBuffer.Drain, lines 40-46: the content is returned and the buffer is
\* emptied
Drain(b) == [text |-> b, data |-> <<>>]

\* lineBuffer.Snapshot, lines 48-52
Snapshot(b) == b

\* conn: the SSH channel as the session sees it: "open"; "eof" once the peer
\* has sent end-of-file (reads end, writes and requests still work);
\* "closed" and "reset" once the channel is gone (reads end with io.EOF or
\* with another error, writes fail, the request stream has ended).
\* nreq, nread: requests and characters received so far.  shell: a shell
\* request has been acknowledged.  rune, prev: the character being handled
\* and the one before it.  wrote: the kinds of output written.
\* once: the state of the sync.Once; bodies, removes, closes: how often its
\* function ran, RemoveClient was called and channel.Close() was called.
\* exit: the path on which run() left.  sent: the lines handed to
\* Room.Broadcast so far, for the session whose submitted lines are followed.
NewSession ==
    [conn |-> "open", nreq |-> 0, shell |-> FALSE, client |-> 0,
     buffer |-> <<>>, rune |-> "", prev |-> "", nread |-> 0, wrote |-> {},
     workers |-> 0, once |-> "new", bodies |-> 0, removes |-> 0,
     closes |-> 0, exit |-> "none", replies |-> <<>>, shown |-> NoMsg,
     sent |-> <<>>]

At(t, p) == th[t].pc = p
Fresh(p) == [IdleTh EXCEPT !.pc = p]

\* the request stream delivers / has ended
StreamOpen(s) == sess[s].conn \in {"open", "eof"}
\* io.WriteString on the channel succeeds
Writable(s) == sess[s].conn \in {"open", "eof"}

RoomSame == UNCHANGED <<sequence, clients, heap, colors, readers, panicked>>
EnvSame == UNCHANGED <<calls, mode>>

\* terminalUI.UpdatePrompt: the status line is reserved once, then the
\* status and the input line are rewritten
Prompted(w) == w \cup {"reserve", "status", "prompt"}
\* session.printMessage: DisplayMessage, then renderPrompt
Printed(w, kind) == Prompted(w \cup {kind})

SSet(s, r) == sess' = [sess EXCEPT ![s] = r]

\* run() leaves on path e and goroutine t goes on at p
Leave(s, e, p) ==
    /\ SSet(s, [sess[s] EXCEPT !.exit = e])
    /\ Set(Main(s), Fresh(p))

-----------------------------------------------------------------------------
(* session.run, session.setup and session.awaitShell *)

\* session.handleRequest: the request asks for a shell
IsShell(r) == r = "shell"

\* every request is accepted
ReplyYes(r) == TRUE

\* session.handleRequest, lines 402-413: the argument of req.Reply
Reply(r) == r \in {"shell", "pty-req", "env", "window-change", "signal"}

\* the replies sent so far, with the request each answers and whether the
\* session was active when it came (kept when the requests are watched)
Answered(q, r, active) ==
    IF mode = "requests"
    THEN Append(q, [type |-> r, ok |-> Reply(r), active |-> active])
    ELSE q

\* how many requests the peer sends: one where the submitted lines are
\* followed and where two sessions are served
ReqBound == IF mode \in {"order", "pair"} THEN 1 ELSE MaxReqs

\* awaitShell, lines 391-397: the next request arrives; a shell request
\* starts the request pump and ends the wait
AwaitRequest(s) ==
    /\ At(Main(s), "await")
    /\ StreamOpen(s)
    /\ sess[s].nreq < ReqBound
    /\ \E r \in ReqTypes :
         IF IsShell(r)
         THEN /\ SSet(s, [sess[s] EXCEPT !.nreq = @ + 1, !.shell = TRUE,
                                         !.workers = @ + 1,
                                         !.replies = Answered(@, r, FALSE)])
              /\ th' = [th EXCEPT ![Main(s)] = Fresh("add"),
                                  ![Pump(s)] = Fresh("pump")]
         ELSE /\ SSet(s, [sess[s] EXCEPT !.nreq = @ + 1,
                                         !.replies = Answered(@, r, FALSE)])
              /\ UNCHANGED th
    /\ RoomSame /\ EnvSame

\* a session whose request stream ended without a shell request registers
\* all the same
OnShellNotRequestedJoin == "add"

\* run, lines 353-356: setup failed with errShellNotRequested, run returns
\* into the deferred cleanupSession
OnShellNotRequested == "cleanup"

\* awaitShell, line 399: the request stream ended
AwaitShellEnded(s) ==
    /\ At(Main(s), "await")
    /\ ~StreamOpen(s)
    /\ Leave(s, "negotiation", OnShellNotRequested)
    /\ RoomSame /\ EnvSame

\* setup, line 374: s.room.AddClient(s.username)
SetupAddClient(s) ==
    /\ At(Main(s), "add")
    /\ \E u \in Names : CallAddClient(Main(s), u, "added")
    /\ UNCHANGED sess /\ EnvSame

\* setup, lines 374-380: AddClient has returned the client; the screen is
\* cleared and the outbound relay starts
ClearScreen(s) ==
    /\ At(Main(s), "added")
    /\ Writable(s)
    /\ SSet(s, [sess[s] EXCEPT !.client = th[Main(s)].client,
                               !.wrote = @ \cup {"clear"},
                               !.workers = @ + 1])
    /\ th' = [th EXCEPT ![Main(s)] = Fresh("greet"),
                        ![Relay(s)] = Fresh("relay")]
    /\ RoomSame /\ EnvSame

\* setup, lines 376-378: ClearScreen cannot write
ClearScreenFails(s) ==
    /\ At(Main(s), "added")
    /\ ~Writable(s)
    /\ SSet(s, [sess[s] EXCEPT !.client = th[Main(s)].client,
                               !.exit = "setup"])
    /\ Set(Main(s), Fresh("syserr"))
    /\ RoomSame /\ EnvSame

\* sendGreeting, lines 438-441: the welcome line, then the help line
SendGreeting(s) ==
    /\ At(Main(s), "greet") \/ At(Main(s), "greet2")
    /\ Writable(s)
    /\ IF At(Main(s), "greet")
       THEN /\ SSet(s, [sess[s] EXCEPT !.wrote = Printed(@, "welcome")])
            /\ Set(Main(s), Fresh("greet2"))
       ELSE /\ SSet(s, [sess[s] EXCEPT !.wrote = Printed(@, "help")])
            /\ Set(Main(s), Fresh("read"))
    /\ RoomSame /\ EnvSame

\* setup, lines 382-384: a greeting line cannot be written
GreetingFails(s) ==
    /\ At(Main(s), "greet") \/ At(Main(s), "greet2")
    /\ ~Writable(s)
    /\ Leave(s, "setup", "syserr")
    /\ RoomSame /\ EnvSame

\* printSystemError, lines 582-584, its result dropped; run then returns
\* into the deferred cleanupSession
PrintSystemError(s) ==
    /\ At(Main(s), "syserr")
    /\ SSet(s, [sess[s] EXCEPT
              !.wrote = IF Writable(s) THEN Printed(@, "error") ELSE @])
    /\ Set(Main(s), Fresh("cleanup"))
    /\ RoomSame /\ EnvSame

-----------------------------------------------------------------------------
(* session.readLoop and the handling of one input character *)

\* what the peer types, and how much of it
InputSet ==
    IF mode = "input" THEN Keys
    ELSE IF mode = "order" THEN OrderKeys ELSE Runes
InputBound ==
    IF mode = "input" THEN MaxKeys
    ELSE IF mode = "order" THEN MaxStrokes
    ELSE IF mode \in {"requests", "pair"} THEN 0 ELSE MaxInput

\* the character handled before the current one; it is remembered for the
\* session whose line editing is followed
Before(r) == IF mode = "input" THEN r ELSE ""

\* readLoop, line 448: ReadRune returns the next character
ReadRune(s) ==
    /\ At(Main(s), "read")
    /\ sess[s].conn = "open"
    /\ sess[s].nread < InputBound
    /\ \E r \in InputSet :
         SSet(s, [sess[s] EXCEPT !.rune = r, !.prev = Before(sess[s].rune),
                                 !.nread = @ + 1])
    /\ Set(Main(s), Fresh("process"))
    /\ RoomSame /\ EnvSame

\* the write error is noted and the loop reads on
AfterPromptReadsOn(s, r) ==
    /\ SSet(s, [r EXCEPT !.wrote = IF Writable(s) THEN Prompted(@) ELSE @,
                         !.exit = IF Writable(s) THEN @ ELSE "writeerr"])
    /\ Set(Main(s), Fresh("read"))

\* what renderPrompt (lines 529-532) leaves when it is the last call of the
\* handling of a character: the next read, or the way out on a write error
AfterPrompt(s, r) ==
    IF Writable(s)
    THEN /\ SSet(s, [r EXCEPT !.wrote = Prompted(@)])
         /\ Set(Main(s), Fresh("read"))
    ELSE /\ SSet(s, [r EXCEPT !.exit = "writeerr"])
         /\ Set(Main(s), Fresh("syserr"))

\* the lines handed to Room.Broadcast, in the order of the calls
Submitted(q, text) == IF mode = "order" THEN Append(q, text) ELSE q

\* the line is dropped instead of broadcast
BroadcastLineSkipped(s, trimmed) ==
    Set(Main(s), Fresh("echo")) /\ RoomSame

\* broadcastLine, lines 521-522: s.room.Broadcast with the client's id and
\* name; its result is printed at "echo"
BroadcastLine(s, trimmed) ==
    LET c == sess[s].client IN
    CallBroadcast(Main(s), heap[c].ID, heap[c].Username, trimmed, "echo")

\* handleNewline and submitLine, lines 489-506: a line feed that is already
\* buffered behind a carriage return is consumed with it; the buffer is
\* drained and broadcast unless it is blank
ProcessNewline(s) ==
    /\ At(Main(s), "process")
    /\ sess[s].rune \in {"\r", "\n"}
    /\ \E lf \in BOOLEAN :
         /\ lf => /\ sess[s].rune = "\r"
                  /\ sess[s].conn = "open"
                  /\ sess[s].nread < InputBound
         /\ LET text == Drain(sess[s].buffer).text
                r == [sess[s] EXCEPT !.buffer = Drain(@).data,
                                     !.rune = IF lf THEN "\n" ELSE @,
                                     !.prev = IF lf THEN Before("\r") ELSE @,
                                     !.nread = IF lf THEN @ + 1 ELSE @]
                w == [r EXCEPT !.sent = Submitted(@, TrimSpace(text))]
            IN IF TrimSpace(text) = <<>>
               THEN AfterPrompt(s, r) /\ RoomSame
               ELSE SSet(s, w) /\ BroadcastLine(s, TrimSpace(text))
    /\ EnvSame

\* processRune, lines 467-476, and handleControl, lines 512-518: ^C or ^D
\* resets the buffer, is acknowledged, and ends the session
ProcessControl(s) ==
    /\ At(Main(s), "process")
    /\ sess[s].rune \in {ctrlC, ctrlD}
    /\ IF Writable(s)
       THEN /\ SSet(s, [sess[s] EXCEPT
                       !.buffer = Reset(@),
                       !.wrote = Prompted(@ \cup {"ack"}),
                       !.exit = IF sess[s].rune = ctrlC
                                THEN "interrupt" ELSE "endinput"])
            /\ Set(Main(s), Fresh("cleanup"))
       ELSE /\ SSet(s, [sess[s] EXCEPT !.buffer = Reset(@),
                                       !.exit = "writeerr"])
            /\ Set(Main(s), Fresh("syserr"))
    /\ RoomSame /\ EnvSame

\* the whole line goes
TrimLastAll(b) == <<>>

\* lineBuffer.TrimLast, line_buffer.go lines 26-32
TrimLast(b) == IF b = <<>> THEN b ELSE SubSeq(b, 1, Len(b) - 1)

\* processRune, lines 477-485: backspace and delete trim the buffer, a
\* printable character is appended, any other character is ignored
ProcessEdit(s) ==
    /\ At(Main(s), "process")
    /\ sess[s].rune \notin {"\r", "\n", ctrlC, ctrlD}
    /\ LET r == sess[s].rune IN
       IF r \in {backspace, deleteChar}
       THEN AfterPrompt(s, [sess[s] EXCEPT !.buffer = TrimLast(@)])
       ELSE IF IsPrint(r)
       THEN AfterPrompt(s, [sess[s] EXCEPT !.buffer = AppendRune(@, r)])
       ELSE UNCHANGED sess /\ Set(Main(s), Fresh("read"))
    /\ RoomSame /\ EnvSame

\* readLoop, lines 449-452, and handleEOF, lines 508-510: the input has
\* ended; what is left in the buffer is broadcast as a last line
HandleEOF(s) ==
    /\ At(Main(s), "read")
    /\ sess[s].conn \in {"eof", "closed"}
    /\ LET text == TrimSpace(Drain(sess[s].buffer).text) IN
       /\ SSet(s, [sess[s] EXCEPT
                     !.buffer = Drain(@).data, !.exit = "eof",
                     !.sent = IF text = <<>> THEN @ ELSE Submitted(@, text)])
       /\ IF text = <<>>
          THEN Set(Main(s), Fresh("cleanup")) /\ RoomSame
          ELSE BroadcastLine(s, text)
    /\ EnvSame

\* readLoop, line 453, and handleReadError, lines 577-578: the read failed
\* with an error that is not io.EOF
ReadError(s) ==
    /\ At(Main(s), "read")
    /\ sess[s].conn = "reset"
    /\ Leave(s, "readerr", "syserr")
    /\ RoomSame /\ EnvSame

\* broadcastLine, lines 522-524: Broadcast has returned the formatted
\* message, which is printed to the sender
Echo(s) ==
    /\ At(Main(s), "echo")
    /\ LET last == sess[s].exit = "eof" IN
       IF Writable(s)
       THEN /\ SSet(s, [sess[s] EXCEPT !.wrote = Printed(@, "message")])
            /\ Set(Main(s), Fresh(IF last THEN "cleanup" ELSE "read"))
       ELSE /\ SSet(s, [sess[s] EXCEPT
                       !.exit = IF last THEN @ ELSE "writeerr"])
            /\ Set(Main(s), Fresh("syserr"))
    /\ RoomSame /\ EnvSame

-----------------------------------------------------------------------------
(* session.cleanupSession, the outbound relay and the request pump *)

\* the function is run by every invocation
OnceFreeAlways(o) == TRUE

\* sync.Once: the function has not been started
OnceFree(o) == o = "new"

\* cleanupSession, lines 543-546: the first invocation enters the Once and
\* calls RemoveClient if a client was registered
CleanupEnter(t, s) ==
    /\ At(t, "cleanup")
    /\ OnceFree(sess[s].once)
    /\ LET c == sess[s].client IN
       IF c # 0
       THEN /\ SSet(s, [sess[s] EXCEPT !.once = "running", !.bodies = @ + 1,
                                       !.removes = @ + 1])
            /\ CallRemoveClient(t, heap[c].ID, "cl_close")
       ELSE /\ SSet(s, [sess[s] EXCEPT !.once = "running", !.bodies = @ + 1])
            /\ Set(t, Fresh("cl_close"))
            /\ RoomSame
    /\ EnvSame

\* cleanupSession, lines 547-549: s.channel.Close()
CleanupClose(t, s) ==
    /\ At(t, "cl_close")
    /\ SSet(s, [sess[s] EXCEPT !.conn = "closed", !.closes = @ + 1])
    /\ Set(t, Fresh("cl_wait"))
    /\ RoomSame /\ EnvSame

\* Wait returns at once
WaitDoneAnyway(w) == TRUE

\* sync.WaitGroup.Wait: the counter is zero
WaitDone(w) == w = 0

\* cleanupSession, line 550: s.workers.Wait() returns when the relay and
\* the pump have ended; the Once is done
CleanupWait(t, s) ==
    /\ At(t, "cl_wait")
    /\ WaitDone(sess[s].workers)
    /\ SSet(s, [sess[s] EXCEPT !.once = "done"])
    /\ Set(t, Fresh("returned"))
    /\ RoomSame /\ EnvSame

\* sync.Once.Do when the function has been run: wait until it is done and
\* return
CleanupSkip(t, s) ==
    /\ At(t, "cleanup")
    /\ sess[s].once = "done"
    /\ Set(t, Fresh("returned"))
    /\ UNCHANGED sess /\ RoomSame /\ EnvSame

\* HandleSession, lines 319-321: run has returned, the deferred
\* channel.Close() runs
RunReturns(s) ==
    /\ At(Main(s), "returned")
    /\ SSet(s, [sess[s] EXCEPT !.conn = "closed", !.closes = @ + 1])
    /\ Set(Main(s), Fresh("done"))
    /\ RoomSame /\ EnvSame

\* cleanupSession is invoked once more, while or after run's deferred
\* invocation
AgainInvoke(s) ==
    /\ At(Again(s), "off")
    /\ At(Main(s), "cleanup") \/ sess[s].once # "new"
    /\ Set(Again(s), Fresh("cleanup"))
    /\ UNCHANGED sess /\ RoomSame /\ EnvSame

\* the newest message is taken first
RecvNewest(q) == [msg |-> q[Len(q)], rest |-> SubSeq(q, 1, Len(q) - 1)]

\* msg := <-ch on a channel that holds messages: the oldest one
Recv(q) == [msg |-> Head(q), rest |-> Tail(q)]

\* startOutboundRelay, lines 429-433: the next message of the client's
\* queue is printed; a write error ends the relay
RelayMessage(s) ==
    /\ At(Relay(s), "relay")
    /\ LET c == sess[s].client IN
       /\ heap[c].send # <<>>
       /\ heap' = [heap EXCEPT ![c].send = Recv(@).rest]
       /\ IF Writable(s)
          THEN /\ SSet(s, [sess[s] EXCEPT
                          !.wrote = Printed(@, "message"),
                          !.shown = IF mode = "input"
                                    THEN Recv(heap[c].send).msg ELSE @])
               /\ UNCHANGED th
          ELSE /\ SSet(s, [sess[s] EXCEPT !.workers = @ - 1])
               /\ Set(Relay(s), Fresh("exit"))
    /\ UNCHANGED <<sequence, clients, colors, readers, panicked>>
    /\ EnvSame

\* startOutboundRelay, lines 428-429: the queue is closed and empty, the
\* range loop ends and the deferred workers.Done() runs
RelayEnds(s) ==
    /\ At(Relay(s), "relay")
    /\ LET c == sess[s].client IN
       heap[c].send = <<>> /\ heap[c].closed
    /\ SSet(s, [sess[s] EXCEPT !.workers = @ - 1])
    /\ Set(Relay(s), Fresh("exit"))
    /\ RoomSame /\ EnvSame

\* startRequestPump, lines 419-421: a request that arrives after the shell
\* request is answered
PumpRequest(s) ==
    /\ At(Pump(s), "pump")
    /\ StreamOpen(s)
    /\ sess[s].nreq < ReqBound
    /\ \E r \in ReqTypes :
         SSet(s, [sess[s] EXCEPT !.nreq = @ + 1,
                                 !.shell = @ \/ IsShell(r),
                                 !.replies = Answered(@, r, TRUE)])
    /\ UNCHANGED th /\ RoomSame /\ EnvSame

\* startRequestPump, lines 418-419: the request stream has ended
PumpEnds(s) ==
    /\ At(Pump(s), "pump")
    /\ ~StreamOpen(s)
    /\ SSet(s, [sess[s] EXCEPT !.workers = @ - 1])
    /\ Set(Pump(s), Fresh("exit"))
    /\ RoomSame /\ EnvSame

\* how a peer hangs up; where two sessions are served, by closing the
\* channel
Hangups == IF mode = "pair" THEN {"closed"} ELSE {"eof", "closed", "reset"}

\* the peer ends its input, closes the channel, or the connection breaks
PeerHangup(s) ==
    /\ ~At(Main(s), "done")
    /\ \E how \in Hangups :
         /\ \/ sess[s].conn = "open"
            \/ sess[s].conn = "eof" /\ how # "eof"
         /\ SSet(s, [sess[s] EXCEPT !.conn = how])
    /\ UNCHANGED th /\ RoomSame /\ EnvSame

-----------------------------------------------------------------------------
(* The sessions of one server *)

SessInit ==
    /\ sequence = 0
    /\ clients = <<>>
    /\ heap = <<>>
    /\ colors = ""
    /\ readers = {}
    /\ panicked = "none"
    /\ th = [t \in Threads |->
                 Fresh(IF t[2] = "main" THEN "await"
                       ELSE IF t = Guest THEN "idle" ELSE "off")]
    /\ calls = 0
    /\ mode = "sessions"
    /\ sess = [s \in Sessions |-> NewSession]

\* the guest registers
GuestJoins ==
    /\ calls < 1
    /\ calls' = calls + 1
    /\ Idle(Guest)
    /\ \E u \in Names : CallAddClient(Guest, u, "idle")
    /\ UNCHANGED <<mode, sess>>

SessionStep(s) ==
    \/ AwaitRequest(s)
    \/ AwaitShellEnded(s)
    \/ SetupAddClient(s)
    \/ ClearScreen(s)
    \/ ClearScreenFails(s)
    \/ SendGreeting(s)
    \/ GreetingFails(s)
    \/ PrintSystemError(s)
    \/ ReadRune(s)
    \/ ProcessNewline(s)
    \/ ProcessControl(s)
    \/ ProcessEdit(s)
    \/ HandleEOF(s)
    \/ ReadError(s)
    \/ Echo(s)
    \/ RunReturns(s)
    \/ AgainInvoke(s)
    \/ RelayMessage(s)
    \/ RelayEnds(s)
    \/ PumpRequest(s)
    \/ PumpEnds(s)
    \/ PeerHangup(s)
    \/ \E t \in {Main(s), Again(s)} :
         \/ CleanupEnter(t, s)
         \/ CleanupClose(t, s)
         \/ CleanupWait(t, s)
         \/ CleanupSkip(t, s)

SessNext ==
    /\ Running
    /\ \/ \E s \in Sessions : SessionStep(s)
       \/ GuestJoins
       \/ \E t \in Threads : RoomStep(t) /\ UNCHANGED <<calls, mode, sess>>

SessionSpec == SessInit /\ [][SessNext]_vars

-----------------------------------------------------------------------------
(* One session's line editing, watched by the guest *)

\* the session of SessInit, with a peer that types the keys of Keys
InputInit ==
    /\ sequence = 0
    /\ clients = <<>>
    /\ heap = <<>>
    /\ colors = ""
    /\ readers = {}
    /\ panicked = "none"
    /\ th = [t \in Threads |->
                 Fresh(IF t[2] = "main" THEN "await"
                       ELSE IF t = Guest THEN "idle" ELSE "off")]
    /\ calls = 0
    /\ mode = "input"
    /\ sess = [s \in Sessions |-> NewSession]

\* the steps of the session when cleanupSession is invoked by run only
InputStep(s) ==
    \/ AwaitRequest(s)
    \/ AwaitShellEnded(s)
    \/ SetupAddClient(s)
    \/ ClearScreen(s)
    \/ ClearScreenFails(s)
    \/ SendGreeting(s)
    \/ GreetingFails(s)
    \/ PrintSystemError(s)
    \/ ReadRune(s)
    \/ ProcessNewline(s)
    \/ ProcessControl(s)
    \/ ProcessEdit(s)
    \/ HandleEOF(s)
    \/ ReadError(s)
    \/ Echo(s)
    \/ RunReturns(s)
    \/ RelayMessage(s)
    \/ RelayEnds(s)
    \/ PumpRequest(s)
    \/ PumpEnds(s)
    \/ PeerHangup(s)
    \/ CleanupEnter(Main(s), s)
    \/ CleanupClose(Main(s), s)
    \/ CleanupWait(Main(s), s)

\* the guest's AddClient runs from call to return while the session's
\* goroutines stand still, and starts when no fan-out is under way
InputNext ==
    /\ Running
    /\ IF ~Idle(Guest)
       THEN RoomStep(Guest) /\ UNCHANGED <<calls, mode, sess>>
       ELSE \/ \E s \in Sessions : InputStep(s)
            \/ (readers = {} /\ GuestJoins)
            \/ \E t \in Sessions \X Roles :
                 RoomStep(t) /\ UNCHANGED <<calls, mode, sess>>

InputSpec == InputInit /\ [][InputNext]_vars

-----------------------------------------------------------------------------
(* One session and its request stream: the peer sends requests and hangs
   up without typing *)

ReqInit ==
    /\ sequence = 0
    /\ clients = <<>>
    /\ heap = <<>>
    /\ colors = ""
    /\ readers = {}
    /\ panicked = "none"
    /\ th = [t \in Threads |->
                 Fresh(IF t[2] = "main" THEN "await"
                       ELSE IF t = Guest THEN "idle" ELSE "off")]
    /\ calls = 0
    /\ mode = "requests"
    /\ sess = [s \in Sessions |-> NewSession]

ReqNext ==
    /\ Running
    /\ \/ \E s \in Sessions :
            \/ AwaitRequest(s)
            \/ AwaitShellEnded(s)
            \/ SetupAddClient(s)
            \/ ClearScreen(s)
            \/ ClearScreenFails(s)
            \/ SendGreeting(s)
            \/ GreetingFails(s)
            \/ PrintSystemError(s)
            \/ HandleEOF(s)
            \/ ReadError(s)
            \/ RunReturns(s)
            \/ RelayMessage(s)
            \/ RelayEnds(s)
            \/ PumpRequest(s)
            \/ PumpEnds(s)
            \/ PeerHangup(s)
            \/ CleanupEnter(Main(s), s)
            \/ CleanupClose(Main(s), s)
            \/ CleanupWait(Main(s), s)
       \/ \E t \in Sessions \X Roles :
            RoomStep(t) /\ UNCHANGED <<calls, mode, sess>>

RequestSpec == ReqInit /\ [][ReqNext]_vars

-----------------------------------------------------------------------------
\* the steps a goroutine of the session takes by itself, whatever the peer
\* does
MainRuns(s) ==
    \/ AwaitShellEnded(s)
    \/ SetupAddClient(s)
    \/ ClearScreen(s)
    \/ ClearScreenFails(s)
    \/ SendGreeting(s)
    \/ GreetingFails(s)
    \/ PrintSystemError(s)
    \/ ProcessNewline(s)
    \/ ProcessControl(s)
    \/ ProcessEdit(s)
    \/ HandleEOF(s)
    \/ ReadError(s)
    \/ Echo(s)
    \/ RunReturns(s)
    \/ CleanupEnter(Main(s), s)
    \/ CleanupClose(Main(s), s)
    \/ CleanupWait(Main(s), s)
    \/ (RoomStep(Main(s)) /\ UNCHANGED <<calls, mode, sess>>)

RelayRuns(s) == RelayMessage(s) \/ RelayEnds(s)

GuestRuns == RoomStep(Guest) /\ UNCHANGED <<calls, mode, sess>>

-----------------------------------------------------------------------------
(* One session alone in the room, from the first request to the return of
   HandleSession *)

SoloInit ==
    /\ sequence = 0
    /\ clients = <<>>
    /\ heap = <<>>
    /\ colors = ""
    /\ readers = {}
    /\ panicked = "none"
    /\ th = [t \in Threads |->
                 Fresh(IF t[2] = "main" THEN "await"
                       ELSE IF t = Guest THEN "idle" ELSE "off")]
    /\ calls = 0
    /\ mode = "solo"
    /\ sess = [s \in Sessions |-> NewSession]

SoloNext ==
    /\ Running
    /\ \/ \E s \in Sessions : SessionStep(s)
       \/ \E t \in Sessions \X Roles :
            RoomStep(t) /\ UNCHANGED <<calls, mode, sess>>

SoloSpec == SoloInit /\ [][SoloNext]_vars

\* the steps of an invocation of cleanupSession, by run or by another caller
CleanupRuns(t, s) ==
    \/ CleanupEnter(t, s)
    \/ CleanupClose(t, s)
    \/ CleanupWait(t, s)
    \/ CleanupSkip(t, s)
    \/ (RoomStep(t) /\ UNCHANGED <<calls, mode, sess>>)

\* the Go scheduler runs every goroutine that can run; what the peer sends,
\* and when, is up to the peer
FairSoloSpec ==
    /\ SoloSpec
    /\ \A s \in Sessions :
           /\ WF_vars(SoloNext /\ MainRuns(s))
           /\ WF_vars(SoloNext /\ CleanupRuns(Main(s), s))
           /\ WF_vars(SoloNext /\ CleanupRuns(Again(s), s))
           /\ WF_vars(SoloNext /\ RelayRuns(s))
           /\ WF_vars(SoloNext /\ PumpEnds(s))

-----------------------------------------------------------------------------
(* C9: cleanup runs once *)

Invokers(s) == {Main(s), Again(s)}

\* the left notices for client c in queue q
LeftNotices(q, c) ==
    {i \in 1..Len(q) :
         IsLeft(q[i]) /\ q[i].text = heap[c].Username \o <<" left the chat">>}

C9_State ==
    \A s \in Sessions :
        /\ sess[s].bodies <= 1
        /\ sess[s].removes <= 1
        /\ sess[s].removes = 1 => sess[s].client # 0
        /\ (At(Main(s), "returned") \/ At(Main(s), "done")) =>
               /\ sess[s].exit # "none"
               /\ sess[s].once = "done"
               /\ sess[s].bodies = 1
               /\ sess[s].client # 0 => sess[s].removes = 1
        /\ sess[s].client # 0 =>
               /\ heap[sess[s].client].closes <= 1
               /\ \A c \in Ptrs :
                      Cardinality(LeftNotices(heap[c].send, sess[s].client)) <= 1

\* an invocation that does not find the Once new returns and changes nothing
C9_Step ==
    \A s \in Sessions : \A t \in Invokers(s) :
        (At(t, "cleanup") /\ th'[t] # th[t] /\ sess[s].once # "new") =>
            /\ th'[t].pc = "returned"
            /\ UNCHANGED <<sess, sequence, clients, heap, readers>>

\* C9: on every exit path of a session the function of cleanupSession runs
\* exactly once by the time run has returned: RemoveClient is called at most
\* once for the session's client, at most one left notice for it reaches any
\* queue, and an invocation of cleanupSession that is repeated or that races
\* with the first one has no effect.
C9_CleanupOnce == []C9_State /\ [][C9_Step]_vars

\* run has returned and a second invocation of cleanupSession has returned
\* as well; the session's client was removed and the guest was told so
C9_Witness ==
    \E s \in Sessions :
        /\ At(Main(s), "done") /\ At(Again(s), "returned")
        /\ sess[s].client # 0 /\ sess[s].removes = 1
        /\ \E c \in Range(clients) :
               LeftNotices(heap[c].send, sess[s].client) # {}

-----------------------------------------------------------------------------
(* C10: no shell request, no registration *)

C10_State ==
    \A s \in Sessions :
        /\ sess[s].exit = "negotiation" => ~sess[s].shell
        /\ ~sess[s].shell =>
               /\ sess[s].client = 0
               /\ sess[s].removes = 0
               /\ sess[s].wrote = {}
               /\ sess[s].nread = 0
               /\ sess[s].workers = 0
               /\ \A r \in Roles : th[<<s, r>>].op = "none"
               /\ th[Main(s)].pc \in
                      {"await", "cleanup", "cl_close", "cl_wait", "returned",
                       "done"}

\* the steps of such a session leave the room alone
C10_Step ==
    \A s \in Sessions :
        (/\ ~sess'[s].shell
         /\ \/ sess'[s] # sess[s]
            \/ \E r \in Roles : th'[<<s, r>>] # th[<<s, r>>])
        => UNCHANGED <<sequence, clients, heap, readers>>

\* C10: a session whose request stream ends before a shell request arrives
\* never joins the room: it does not call AddClient, no joined or left
\* notice is sent for it, the registry is unchanged by it, and it writes no
\* greeting and reads no input character.
C10_NoShellNoJoin == []C10_State /\ [][C10_Step]_vars

\* the request stream of a session ended after a request that was not a
\* shell request; run has returned, and the guest is registered
C10_Witness ==
    \E s \in Sessions :
        /\ sess[s].exit = "negotiation"
        /\ sess[s].nreq > 0
        /\ At(Main(s), "done")
        /\ clients # <<>>

-----------------------------------------------------------------------------
(* C11: a blank line is not broadcast *)

Blank(x) == \A i \in 1..Len(x) : x[i] \in {" ", "\t", "\r", "\n"}

\* the goroutine running run() takes a step
MainMoves(s) == th'[Main(s)] # th[Main(s)]

\* that step submits the line buffer: a newline is handled, or the input
\* has ended
SubmitsLine(s) ==
    /\ MainMoves(s)
    /\ \/ At(Main(s), "process") /\ sess[s].rune \in {"\r", "\n"}
       \/ At(Main(s), "read") /\ sess[s].conn \in {"eof", "closed"}

IsChat(m) == m.label # <<"[system]">>

C11_State ==
    \A s \in Sessions :
        th[Main(s)].op = "Broadcast" =>
            LET x == th[Main(s)].msg.text IN
            x # <<>> /\ ~Blank(<<x[1]>>) /\ ~Blank(<<x[Len(x)]>>)

C11_Step ==
    \A s \in Sessions :
        (SubmitsLine(s) /\ Blank(sess[s].buffer)) =>
            /\ th'[Main(s)].op # "Broadcast"
            /\ heap' = heap
            /\ sess'[s].buffer = <<>>

\* C11: submitting the line buffer (carriage return, line feed or end of
\* input) while it is empty or holds only whitespace does not call
\* Room.Broadcast and puts nothing on any queue; whatever the session
\* broadcasts is trimmed and not empty.
C11_BlankNotBroadcast == []C11_State /\ [][C11_Step]_vars

\* a line made of one space was submitted by a carriage return while the
\* guest was registered: the guest's queue holds no chat message
C11_Witness ==
    \E s \in Sessions :
        /\ At(Main(s), "read")
        /\ sess[s].rune = "\r" /\ sess[s].prev = " "
        /\ sess[s].buffer = <<>>
        /\ Idle(Guest) /\ clients # <<>> /\ Cardinality(DOMAIN clients) = 2
        /\ \A c \in Range(clients) :
               \A i \in 1..Len(heap[c].send) : ~IsChat(heap[c].send[i])

-----------------------------------------------------------------------------
(* C12: carriage return, then line feed *)

\* the step handles a newline character
HandlesNewline(s) ==
    /\ MainMoves(s)
    /\ At(Main(s), "process")
    /\ sess[s].rune \in {"\r", "\n"}

\* the newline is the line feed that came right after a carriage return
IsPairedLF(s) == sess[s].rune = "\n" /\ sess[s].prev = "\r"

\* C12 as stated: a carriage return and the line feed after it are one
\* submission, also when the line feed had not arrived when the carriage
\* return was handled: the line feed is never submitted on its own.
C12_PairSubmittedOnce ==
    [][\A s \in Sessions : ~(HandlesNewline(s) /\ IsPairedLF(s))]_vars

ChatCount(q) == Cardinality({i \in 1..Len(q) : IsChat(q[i])})

C12_Step ==
    \A s \in Sessions :
        HandlesNewline(s) =>
            /\ sess'[s].buffer = <<>>
            /\ IsPairedLF(s) =>
                   /\ sess[s].buffer = <<>>
                   /\ th'[Main(s)].op # "Broadcast"
                   /\ heap' = heap
                   /\ sess'[s].nread = sess[s].nread
            /\ sess'[s].nread # sess[s].nread =>
                   /\ sess[s].rune = "\r"
                   /\ sess'[s].rune = "\n"
                   /\ sess'[s].nread = sess[s].nread + 1

\* C12: a carriage return followed by a line feed broadcasts the line at
\* most once.  A line feed that is already buffered when the carriage return
\* is handled is consumed with it, in one submission.  A line feed that
\* arrives later is handled as a newline of its own: it submits the buffer a
\* second time, which is empty by then, so nothing is broadcast.
C12_PairBroadcastOnce == [][C12_Step]_vars

\* "h", carriage return and line feed have been handled; the guest holds the
\* one chat message of the line
C12_Witness ==
    \E s \in Sessions :
        /\ At(Main(s), "read")
        /\ sess[s].nread = 3
        /\ sess[s].rune = "\n" /\ sess[s].prev = "\r"
        /\ sess[s].buffer = <<>>
        /\ \E c \in Range(clients) :
               c # sess[s].client /\ ChatCount(heap[c].send) = 1

-----------------------------------------------------------------------------
(* C13: the last line at the end of input *)

\* x is y without the whitespace at its two ends
IsTrimOf(x, y) ==
    \E i \in 1..Len(y) : \E j \in i..Len(y) :
        /\ x = SubSeq(y, i, j)
        /\ Blank(SubSeq(y, 1, i - 1)) /\ Blank(SubSeq(y, j + 1, Len(y)))
        /\ ~Blank(<<y[i]>>) /\ ~Blank(<<y[j]>>)

\* the read of this step returns io.EOF
ReadsEOF(s) ==
    /\ MainMoves(s)
    /\ At(Main(s), "read")
    /\ sess[s].conn \in {"eof", "closed"}

\* in queue q no chat message of client c comes after the left notice for c
LeftIsLast(q, c) ==
    \A i \in LeftNotices(q, c) : \A j \in 1..Len(q) :
        (IsChat(q[j]) /\ q[j].label = heap[c].Username) => j < i

C13_State ==
    \A s \in Sessions :
        /\ sess[s].exit = "eof" =>
               /\ sess[s].buffer = <<>>
               /\ th[Main(s)].pc \notin {"read", "process"}
               /\ \/ At(Main(s), "done")
                  \/ ENABLED (InputNext /\ MainRuns(s))
                  \/ ENABLED (InputNext /\ RelayRuns(s))
                  \/ ENABLED (InputNext /\ PumpEnds(s))
                  \/ ENABLED (InputNext /\ GuestRuns)
        /\ sess[s].client # 0 =>
               \A c \in Ptrs : LeftIsLast(heap[c].send, sess[s].client)

C13_Step ==
    \A s \in Sessions :
        /\ (ReadsEOF(s) /\ ~Blank(sess[s].buffer)) =>
               /\ th'[Main(s)].op = "Broadcast"
               /\ th'[Main(s)].id = heap[sess[s].client].ID
               /\ IsTrimOf(th'[Main(s)].msg.text, sess[s].buffer)
               /\ th'[Main(s)].found
               /\ sess'[s].removes = 0
        /\ (sess[s].exit = "eof" /\ MainMoves(s)) =>
               /\ th[Main(s)].op # "Broadcast" =>
                      th'[Main(s)].op # "Broadcast"
               /\ sess'[s].exit = "eof"

\* C13: when the read returns end of input while the buffer holds text that
\* is not blank, the session broadcasts the trimmed text, once, while its
\* client is still registered, and reads no further input; the buffer is
\* empty from then on, run goes on to its return without getting stuck, and
\* in every queue the message comes before the left notice of the session's
\* client.
C13_LastLineBeforeLeft == []C13_State /\ [][C13_Step]_vars

\* the input ended with " h" in the buffer; run has returned and the guest
\* holds the chat message "h", then the left notice
C13_Witness ==
    \E s \in Sessions :
        /\ sess[s].exit = "eof" /\ At(Main(s), "done")
        /\ sess[s].prev = " " /\ sess[s].rune = "h"
        /\ \E c \in Range(clients) :
               LET q == heap[c].send IN
               /\ LeftNotices(q, sess[s].client) # {}
               /\ \E j \in 1..Len(q) : IsChat(q[j]) /\ q[j].text = <<"h">>

-----------------------------------------------------------------------------
(* C14: interrupt and end of input *)

IsControl(r) == r \in {"0x03", "0x04"}

\* the step handles ^C or ^D
HandlesControl(s) ==
    /\ MainMoves(s)
    /\ At(Main(s), "process")
    /\ IsControl(sess[s].rune)

\* ^C or ^D has been handled
ControlHandled(s) == IsControl(sess[s].rune) /\ ~At(Main(s), "process")

C14_State ==
    \A s \in Sessions :
        ControlHandled(s) =>
            /\ sess[s].buffer = <<>>
            /\ sess[s].exit \in {"interrupt", "endinput", "writeerr"}
            /\ (sess[s].exit = "interrupt") => sess[s].rune = "0x03"
            /\ (sess[s].exit = "endinput") => sess[s].rune = "0x04"
            /\ sess[s].exit # "writeerr" => {"ack", "prompt"} \subseteq sess[s].wrote
            /\ th[Main(s)].pc \notin {"read", "echo"}
            /\ th[Main(s)].op # "Broadcast"
            /\ \/ At(Main(s), "done")
               \/ ENABLED (InputNext /\ MainRuns(s))
               \/ ENABLED (InputNext /\ RelayRuns(s))
               \/ ENABLED (InputNext /\ PumpEnds(s))
               \/ ENABLED (InputNext /\ GuestRuns)

C14_Step ==
    \A s \in Sessions :
        /\ HandlesControl(s) =>
               /\ sess'[s].buffer = <<>>
               /\ heap' = heap
               /\ th'[Main(s)].op = "none"
               /\ IF Writable(s)
                  THEN /\ {"ack", "status", "prompt"} \subseteq sess'[s].wrote
                       /\ th'[Main(s)].pc = "cleanup"
                  ELSE /\ sess'[s].wrote = sess[s].wrote
                       /\ th'[Main(s)].pc = "syserr"
        /\ ControlHandled(s) =>
               /\ sess'[s].nread = sess[s].nread
               /\ sess'[s].rune = sess[s].rune
               /\ \A c \in Ptrs :
                      ChatCount(heap'[c].send) <= ChatCount(heap[c].send)

-----------------------------------------------------------------------------
(* The line buffer (line_buffer.go) under the input loop and the relay *)

\* calls the input loop makes on the buffer, and snapshots the relay takes
MaxOps == 4
MaxSnaps == 1

\* the characters the input loop handles
BufKeys == {"h", "i", backspace, deleteChar, "\r", ctrlC}

\* processRune, session.go lines 463-487: the lineBuffer method a character
\* leads to
MethodOf(r) ==
    IF r \in {"\r", "\n"} THEN "Drain"
    ELSE IF r \in {ctrlC, ctrlD} THEN "Reset"
    ELSE IF r \in {backspace, deleteChar} THEN "TrimLast"
    ELSE IF IsPrint(r) THEN "Append"
    ELSE "none"

\* a reader gets the lock whatever the writer does
BufCanRLockAnyway(b) == TRUE

\* sync.RWMutex: RLock waits for the writer, Lock for the writer and the
\* readers
BufCanRLock(b) == ~b.writer
BufCanLock(b) == ~b.writer /\ b.readers = 0

\* data: lineBuffer.data; writer, readers: the state of lineBuffer.mu;
\* nops, nsnaps: calls made so far; since: the characters appended since the
\* last Drain or Reset; kept: those of them that no TrimLast has removed
NewBuffer ==
    [data |-> <<>>, writer |-> FALSE, readers |-> 0, nops |-> 0, nsnaps |-> 0,
     since |-> <<>>, kept |-> <<>>]

\* pc, op, r: the call in progress and its argument; text: the result of the
\* last Drain or Snapshot; since, kept: what had been appended and what of it
\* was left when that result was read
BufIdle ==
    [pc |-> "idle", op |-> "none", r |-> "", text |-> <<>>,
     since |-> <<>>, kept |-> <<>>]

BufInit ==
    /\ sequence = 0
    /\ clients = <<>>
    /\ heap = <<>>
    /\ colors = ""
    /\ readers = {}
    /\ panicked = "none"
    /\ calls = 0
    /\ mode = "buffer"
    /\ sess = NewBuffer
    /\ th = [t \in {"input", "relay"} |-> BufIdle]

BufSame == RoomSame /\ EnvSame

\* the input loop handles a character: the method is called and takes the
\* write lock
BufCall ==
    /\ th["input"].pc = "idle"
    /\ sess.nops < MaxOps
    /\ BufCanLock(sess)
    /\ \E r \in BufKeys :
         th' = [th EXCEPT !["input"] =
                   [BufIdle EXCEPT !.pc = "locked", !.op = MethodOf(r), !.r = r]]
    /\ sess' = [sess EXCEPT !.writer = TRUE, !.nops = @ + 1]
    /\ BufSame

\* Append, TrimLast and Reset: the body and Unlock
BufEdit ==
    /\ th["input"].pc = "locked"
    /\ th["input"].op \in {"Append", "TrimLast", "Reset"}
    /\ LET op == th["input"].op
           r == th["input"].r
       IN sess' = [sess EXCEPT
              !.writer = FALSE,
              !.data = IF op = "Append" THEN AppendRune(@, r)
                       ELSE IF op = "TrimLast" THEN TrimLast(@)
                       ELSE Reset(@),
              !.since = IF op = "Append" THEN Append(@, r)
                        ELSE IF op = "TrimLast" THEN @ ELSE <<>>,
              !.kept = IF op = "Append" THEN Append(@, r)
                       ELSE IF op = "TrimLast"
                       THEN SubSeq(@, 1, Len(@) - 1) ELSE <<>>]
    /\ th' = [th EXCEPT !["input"].pc = "idle"]
    /\ BufSame

\* Drain, line 42: text := string(b.data)
BufDrainRead ==
    /\ th["input"].pc = "locked"
    /\ th["input"].op = "Drain"
    /\ th' = [th EXCEPT !["input"].pc = "clear",
                        !["input"].text = Drain(sess.data).text,
                        !["input"].since = sess.since,
                        !["input"].kept = sess.kept]
    /\ UNCHANGED sess
    /\ BufSame

\* Drain, lines 43-45: b.data = b.data[:0], Unlock, return text
BufDrainClear ==
    /\ th["input"].pc = "clear"
    /\ sess' = [sess EXCEPT !.writer = FALSE, !.data = Drain(@).data,
                            !.since = <<>>, !.kept = <<>>]
    /\ th' = [th EXCEPT !["input"].pc = "idle"]
    /\ BufSame

\* Snapshot, line 49: RLock
BufSnapRLock ==
    /\ th["relay"].pc = "idle"
    /\ sess.nsnaps < MaxSnaps
    /\ BufCanRLock(sess)
    /\ sess' = [sess EXCEPT !.readers = @ + 1, !.nsnaps = @ + 1]
    /\ th' = [th EXCEPT !["relay"] =
                 [BufIdle EXCEPT !.pc = "rlocked", !.op = "Snapshot"]]
    /\ BufSame

\* Snapshot, lines 50-51: string(b.data) and RUnlock.  Reading the slice
\* while a writer is inside its critical section is a data race: the result
\* is then anything, here the content or a torn value
BufSnapRead ==
    /\ th["relay"].pc = "rlocked"
    /\ \E x \in (IF sess.writer THEN {Snapshot(sess.data), <<"torn">>}
                 ELSE {Snapshot(sess.data)}) :
         th' = [th EXCEPT !["relay"].pc = "idle", !["relay"].text = x,
                          !["relay"].since = sess.since,
                          !["relay"].kept = sess.kept]
    /\ sess' = [sess EXCEPT !.readers = @ - 1]
    /\ BufSame

BufNext ==
    \/ BufCall
    \/ BufEdit
    \/ BufDrainRead
    \/ BufDrainClear
    \/ BufSnapRLock
    \/ BufSnapRead

BufferSpec == BufInit /\ [][BufNext]_vars

-----------------------------------------------------------------------------
\* C15 as stated: Drain returns exactly the characters appended, in order,
\* since the last Drain or Reset, whatever calls came between.
C15_DrainReturnsAppended ==
    (th["input"].op = "Drain" /\ th["input"].pc \in {"clear", "idle"})
        => th["input"].text = th["input"].since

DrainReturned == th["input"].op = "Drain" /\ th["input"].pc \in {"clear", "idle"}
SnapshotReturned == th["relay"].op = "Snapshot" /\ th["relay"].pc = "idle"

C15_State ==
    /\ DrainReturned => th["input"].text = th["input"].kept
    /\ SnapshotReturned => th["relay"].text = th["relay"].kept
    /\ ~sess.writer => sess.data = sess.kept
    /\ ~(sess.writer /\ sess.readers > 0)

C15_Step ==
    /\ (th["input"].pc = "clear" /\ th'["input"].pc = "idle")
          => (sess'.data = <<>> /\ sess.data = th["input"].text)
    /\ (th["relay"].pc = "rlocked" /\ th'["relay"].pc = "idle")
          => (th["input"].pc \notin {"locked", "clear"}
              /\ th'["relay"].text = sess.data)

\* C15: Drain returns, in order, the characters appended since the last
\* Drain or Reset that no TrimLast has removed, and leaves the buffer empty;
\* no call changes the buffer between Drain's read and its clear, and a
\* Snapshot never reads while a writing call is inside, so it returns the
\* content of one instant: the content before a drain or the empty buffer
\* after it.
C15_DrainReturnsKept == []C15_State /\ [][C15_Step]_vars

\* "h", "i", a backspace and a newline: Drain returned "h" of the two
\* characters appended, and a Snapshot returned some content before it
C15_Witness ==
    /\ th["input"].op = "Drain" /\ th["input"].pc = "idle"
    /\ th["input"].since = <<"h", "i">>
    /\ th["input"].text = <<"h">>
    /\ sess.data = <<>>
    /\ SnapshotReturned /\ th["relay"].text # <<>>

-----------------------------------------------------------------------------
IsPrefixOf(x, y) ==
    /\ Len(x) <= Len(y)
    /\ \A i \in 1..Len(x) : x[i] = y[i]

TrimLastReturns ==
    /\ th["input"].pc = "locked" /\ th["input"].op = "TrimLast"
    /\ th'["input"].pc = "idle"

C16_State ==
    /\ (th["input"].op = "TrimLast") <=> (th["input"].r \in {backspace, deleteChar})
    /\ DrainReturned => th["input"].text = th["input"].kept

C16_Step ==
    /\ TrimLastReturns =>
          IF sess.data = <<>>
          THEN sess'.data = <<>>
          ELSE /\ Len(sess'.data) = Len(sess.data) - 1
               /\ IsPrefixOf(sess'.data, sess.data)
    /\ (th["input"].pc = "locked" /\ th'["input"].pc = "clear")
          => th'["input"].text = sess.data
    /\ (th["input"].pc = "clear" /\ th'["input"].pc = "idle")
          => sess'.data = <<>>

\* C16: a backspace or delete character calls TrimLast, which removes
\* exactly the last character of the buffer and leaves the characters before
\* it as they were, and changes nothing when the buffer is empty; the next
\* Drain returns what is left and empties the buffer.
C16_BackspaceTrimsLast == []C16_State /\ [][C16_Step]_vars

\* "h", "i", backspace, newline with no snapshot in between: Drain returned
\* "h" and the buffer is empty
C16_Witness ==
    /\ th["input"].op = "Drain" /\ th["input"].pc = "idle"
    /\ th["input"].r = "\r"
    /\ th["input"].since = <<"h", "i">>
    /\ th["input"].text = <<"h">>
    /\ sess.data = <<>>
    /\ sess.nsnaps = 0

-----------------------------------------------------------------------------
C17_State ==
    \A s \in Sessions :
        At(Main(s), "done") =>
            /\ sess[s].workers = 0
            /\ th[Relay(s)].pc \in {"off", "exit"}
            /\ th[Pump(s)].pc \in {"off", "exit"}
            /\ sess[s].once = "done"
            /\ sess[s].conn = "closed"
            /\ LET c == sess[s].client IN
               c # 0 => /\ c \notin Range(clients)
                        /\ heap[c].closed
                        /\ th[Pump(s)].pc = "exit"

C17_Returns ==
    \A s \in Sessions : (sess[s].exit # "none") ~> At(Main(s), "done")

\* C17: HandleSession returns only when cleanupSession has finished: the
\* session's client, if one was registered, is out of the room and its queue
\* is closed, and the outbound relay and the request pump have ended; and a
\* session that has reached its termination eventually returns, the closed
\* connection ending the request stream and the pending reads and writes.
C17_ReturnsAfterCleanup == []C17_State /\ C17_Returns

\* a registered session that read input has returned: its client's queue is
\* closed, and its relay and its pump have ended
C17_Witness ==
    \E s \in Sessions :
        /\ At(Main(s), "done")
        /\ sess[s].client # 0
        /\ th[Relay(s)].pc = "exit" /\ th[Pump(s)].pc = "exit"
        /\ heap[sess[s].client].closed
        /\ sess[s].nread > 0

-----------------------------------------------------------------------------
\* goroutine t calls Broadcast in this step
CallsBroadcast(t) ==
    th[t].op # "Broadcast" /\ th'[t].op = "Broadcast" /\ th'[t].pc = "deliver"

\* the username of client c as the room shows it
Shown(c) ==
    IF c.Color = "" THEN c.Username
    ELSE <<c.Color>> \o c.Username \o <<"ESC[0m">>

\* C18 as stated: the label is the sender's shown username or the name
\* passed in, and a Broadcast for an unregistered sender is delivered to
\* every registered client.
C18_FallbackDeliveredToAll ==
    \A t \in DOMAIN th :
        (th[t].op = "Broadcast" /\ FanoutDone(t) /\ ~th[t].found) =>
            /\ th[t].msg.label = th[t].name
            /\ \A c \in Range(th[t].view) : c \in th[t].got

C18_State ==
    \A t \in DOMAIN th :
        (th[t].op = "Broadcast" /\ FanoutDone(t) /\ ~th[t].found) =>
            /\ th[t].msg.label = th[t].name
            /\ Range(th[t].view) = th[t].got \cup th[t].dropped

C18_Step ==
    \A t \in DOMAIN th :
        /\ CallsBroadcast(t) =>
              /\ th'[t].found <=> (th'[t].id \in DOMAIN clients)
              /\ th'[t].msg.label =
                    IF th'[t].id \in DOMAIN clients
                    THEN Shown(heap[clients[th'[t].id]])
                    ELSE th'[t].name
              /\ th'[t].view = clients
        /\ (th[t].op = "Broadcast" /\ Delivers(t)) =>
              /\ th'[t].msg = th[t].msg
              /\ \A c \in th'[t].got \ th[t].got :
                     /\ heap'[c].send = Append(heap[c].send, th[t].msg)
                     /\ c \in Range(clients)
              /\ \A c \in th'[t].dropped \ th[t].dropped :
                     /\ Len(heap[c].send) = QueueCap
                     /\ heap'[c].send = heap[c].send
        /\ (th[t].op = "Broadcast" /\ FanoutDone(t) /\ th'[t] # th[t]) =>
              th'[t].pc = th[t].ret

\* C18: Broadcast labels its message with the username of the registered
\* client, in its colour when it has one, when senderID is in the registry
\* at the call, and with the senderName passed in when it is not; in that
\* case nobody is skipped: the message is enqueued on the queue of every
\* registered client that is not full and dropped for the full ones, and the
\* call returns with the formatted message.
C18_SenderLabel == []C18_State /\ [][C18_Step]_vars

\* a Broadcast for a sender that is not registered has gone round: its label
\* is the name passed in, and a registered client has the message
C18_Witness ==
    \E t \in DOMAIN th :
        /\ th[t].op = "Broadcast" /\ FanoutDone(t) /\ ~th[t].found
        /\ th[t].name # <<>>
        /\ th[t].msg.label = th[t].name
        /\ \E c \in th[t].got : Contains(heap[c].send, th[t].msg)

-----------------------------------------------------------------------------
\* the clients whose registration (lines 119-121) is complete
RegistrationsDone ==
    {c \in Ptrs :
        ~\E t \in DOMAIN th : th[t].pc = "add_lock" /\ th[t].client = c}

\* the clients a RemoveClient call has deleted from the map
RemovalsDone ==
    {c \in Ptrs :
        \/ heap[c].closed
        \/ \E t \in DOMAIN th :
              th[t].op = "RemoveClient" /\ th[t].found /\ th[t].client = c}

\* goroutine t calls ClientCount in this step
CallsClientCount(t) == th[t].op # "ClientCount" /\ th'[t].op = "ClientCount"

C19_State ==
    /\ Range(clients) = RegistrationsDone \ RemovalsDone
    /\ RemovalsDone \subseteq RegistrationsDone
    /\ Cardinality(DOMAIN clients) = Cardinality(Range(clients))
    /\ Cardinality(DOMAIN clients) =
           Cardinality(RegistrationsDone) - Cardinality(RemovalsDone)
    /\ \A c \in Range(clients) : ~heap[c].closed
    /\ \A t \in DOMAIN th : th[t].count >= 0

C19_Step ==
    /\ \A t \in DOMAIN th :
           CallsClientCount(t) =>
               /\ th'[t].count = Cardinality(DOMAIN clients)
               /\ th'[t].count =
                      Cardinality(RegistrationsDone) - Cardinality(RemovalsDone)
               /\ UNCHANGED <<sequence, clients, heap, readers>>
    /\ Cardinality(DOMAIN clients') > Cardinality(DOMAIN clients) =>
           /\ Cardinality(DOMAIN clients') = Cardinality(DOMAIN clients) + 1
           /\ \E t \in DOMAIN th : th[t].pc = "add_lock" /\ th'[t].pc # "add_lock"
    /\ Cardinality(DOMAIN clients') < Cardinality(DOMAIN clients) =>
           /\ Cardinality(DOMAIN clients') = Cardinality(DOMAIN clients) - 1
           /\ \E t \in DOMAIN th :
                  th'[t].op = "RemoveClient" /\ th'[t].found /\ th[t].pc = "idle"

\* C19: ClientCount returns the size of the registry, which in every state
\* is the number of completed registrations minus the number of RemoveClient
\* calls that found their id; it is never negative, and a client whose queue
\* is closed is not in the registry.
C19_CountIsRegistrySize == []C19_State /\ [][C19_Step]_vars

\* ClientCount returned 0 after the registration and the removal of a
\* client, whose queue is closed
C19_Witness ==
    \E t \in DOMAIN th :
        /\ th[t].op = "ClientCount" /\ th[t].count = 0
        /\ Cardinality(RegistrationsDone) = 1
        /\ Cardinality(RemovalsDone) = 1
        /\ \E c \in Ptrs : heap[c].closed

-----------------------------------------------------------------------------
\* what a finished fan-out tried: the queues that took the message and the
\* full ones
Attempted(t) == th[t].got \cup th[t].dropped

\* the registry a fan-out ranges over, without the excluded id
Snapshotted(t) ==
    {th[t].view[id] : id \in {i \in DOMAIN th[t].view : i # th[t].excl}}

C20_State ==
    \A t \in DOMAIN th :
        InFanout(t) =>
            /\ t \in readers
            /\ th[t].view = clients
            /\ th[t].todo \subseteq DOMAIN clients
            /\ Attempted(t) \subseteq Snapshotted(t)
            /\ th[t].todo = {} => Attempted(t) = Snapshotted(t)

C20_Step ==
    /\ clients' # clients =>
           /\ readers = {}
           /\ \A t \in DOMAIN th : ~InFanout(t)
    /\ \A t \in DOMAIN th :
           (InFanout(t) /\ th'[t].pc = "deliver") => th'[t].view = th[t].view

\* C20: the registry changes only when no fan-out is under way: every
\* Broadcast and every system notice ranges over the registry as it is from
\* the first to the last recipient, and what it tries is exactly the clients
\* registered then, without the excluded sender; a client being added or
\* removed meanwhile is in that registry or is not.
C20_FanoutSeesOneRegistry == []C20_State /\ [][C20_Step]_vars

\* a fan-out over two clients has reached one of them, and a registration
\* waits for the write lock
C20_Witness ==
    \E t, u \in DOMAIN th :
        /\ InFanout(t)
        /\ Cardinality(DOMAIN th[t].view) = 2
        /\ Cardinality(th[t].todo) = 1
        /\ Attempted(t) # {}
        /\ th[u].pc = "add_lock"

-----------------------------------------------------------------------------
(* The terminal of one active session: the input loop and the outbound
   relay write through terminalUI and sessionWriter *)

\* characters the input loop handles, and messages the relay takes from the
\* client's queue
MaxTyped == 2
MaxRelayed == 1

Producers == {"input", "relay"}

\* the characters the peer types
RenderKeys == {"h", backspace, "\r", ctrlC}

\* the kinds of writeString calls of terminal_ui.go
Writes == {"ack", "message", "reserve", "status", "line"}

\* a prompt update that writes the input line before the status region
PlanLineFirst(op) ==
    (IF op = "message" THEN <<"message">>
     ELSE IF op = "control" THEN <<"ack">> ELSE <<>>)
        \o <<"snap", "ensure", "line", "status">>

\* renderPrompt and UpdatePrompt: the buffer is read, then ensureStatusLine,
\* renderStatus and the input line; printMessage: DisplayMessage, then
\* renderPrompt; handleControl after the Reset: DisplayControlAck, then
\* renderPrompt
Plan(op) ==
    (IF op = "message" THEN <<"message">>
     ELSE IF op = "control" THEN <<"ack">> ELSE <<>>)
        \o <<"snap", "ensure", "status", "line">>

\* a writer that does not wait
WriterFreeAnyway(holder) == TRUE

\* sessionWriter.mu.Lock() can be taken
WriterFree(holder) == holder = "none"

\* the reservation is written by every call
StatusOnceFreeAlways(o) == o # "running"

\* ui.statusOnce: the function has not been started
StatusOnceFree(o) == o = "new"

\* data: the line buffer; wmu: who holds sessionWriter.mu; once, statusErr:
\* ui.statusOnce and ui.statusErr; conn: the channel; out: the writes the
\* channel has taken, in order; typed, relayed: characters handled and
\* messages taken so far
NewScreen ==
    [data |-> <<>>, wmu |-> "none", once |-> "new", statusErr |-> FALSE,
     conn |-> "open", out |-> <<>>, typed |-> 0, relayed |-> 0]

\* pc: idle, run (inside an operation), writing (inside writeString with the
\* mutex held) or exit; plan: what is left of the operation; line: the
\* buffer snapshot of the renderPrompt call in progress; last: the input
\* loop ends after this operation
Producer ==
    [pc |-> "idle", plan |-> <<>>, line |-> <<>>, last |-> FALSE]

RenderInit ==
    /\ sequence = 0
    /\ clients = <<>>
    /\ heap = <<>>
    /\ colors = ""
    /\ readers = {}
    /\ panicked = "none"
    /\ calls = 0
    /\ mode = "render"
    /\ sess = NewScreen
    /\ th = [p \in Producers |-> Producer]

\* an operation of producer p ends: the relay goes on with its queue, the
\* input loop reads on unless it has ended; when the input loop ends,
\* cleanupSession closes the channel
Ended(p, rec, failed) ==
    [rec EXCEPT !.plan = <<>>,
                !.pc = IF failed \/ rec.last THEN "exit" ELSE "idle"]

ConnAfter(p, rec, failed) ==
    IF p = "input" /\ (failed \/ rec.last) THEN "closed" ELSE sess.conn

\* readLoop and processRune, lines 444-487: one character is read and
\* handled up to its first write
RenderKey ==
    /\ th["input"].pc = "idle"
    /\ sess.conn = "open"
    /\ sess.typed < MaxTyped
    /\ \E r \in RenderKeys :
         LET m == MethodOf(r)
             drained == Drain(sess.data)
         IN /\ sess' = [sess EXCEPT
                   !.typed = @ + 1,
                   !.data = IF m = "Append" THEN AppendRune(@, r)
                            ELSE IF m = "TrimLast" THEN TrimLast(@)
                            ELSE IF m = "Reset" THEN Reset(@)
                            ELSE drained.data]
            /\ th' = [th EXCEPT !["input"] =
                      [Producer EXCEPT
                          !.pc = "run",
                          !.last = (m = "Reset"),
                          !.plan = IF m = "Reset" THEN Plan("control")
                                   ELSE IF m = "Drain"
                                           /\ TrimSpace(drained.text) # <<>>
                                   THEN Plan("message")
                                   ELSE Plan("prompt")]]
    /\ BufSame

\* readLoop, lines 448-454: the read fails on a closed channel and the
\* session ends
RenderReadFails ==
    /\ th["input"].pc = "idle"
    /\ sess.conn # "open"
    /\ th' = [th EXCEPT !["input"].pc = "exit"]
    /\ UNCHANGED sess
    /\ BufSame

\* startOutboundRelay, lines 429-430: the next message of the queue
RelayTakes ==
    /\ th["relay"].pc = "idle"
    /\ sess.relayed < MaxRelayed
    /\ sess' = [sess EXCEPT !.relayed = @ + 1]
    /\ th' = [th EXCEPT !["relay"] =
                 [Producer EXCEPT !.pc = "run", !.plan = Plan("message")]]
    /\ BufSame

\* renderPrompt, lines 529-532: the arguments of UpdatePrompt are evaluated
StepSnap(p) ==
    /\ th[p].pc = "run"
    /\ Head(th[p].plan) = "snap"
    /\ th' = [th EXCEPT ![p].plan = Tail(@),
                        ![p].line = Snapshot(sess.data)]
    /\ UNCHANGED sess
    /\ BufSame

\* ensureStatusLine, lines 47-52: the first caller runs the function, a
\* caller that finds it running waits, the others read statusErr
StepEnsure(p) ==
    /\ th[p].pc = "run"
    /\ Head(th[p].plan) = "ensure"
    /\ sess.once # "running"
    /\ IF StatusOnceFree(sess.once)
       THEN /\ sess' = [sess EXCEPT !.once = "running"]
            /\ th' = [th EXCEPT ![p].plan = <<"reserve">> \o Tail(@)]
       ELSE /\ sess' = [sess EXCEPT
                   !.conn = ConnAfter(p, th[p], sess.statusErr)]
            /\ th' = [th EXCEPT ![p] =
                      IF sess.statusErr THEN Ended(p, @, TRUE)
                      ELSE [@ EXCEPT !.plan = Tail(@)]]
    /\ BufSame

\* writeString, line 564: w.mu.Lock()
WriteLock(p) ==
    /\ th[p].pc = "run"
    /\ Head(th[p].plan) \in Writes
    /\ WriterFree(sess.wmu)
    /\ sess' = [sess EXCEPT !.wmu = p]
    /\ th' = [th EXCEPT ![p].pc = "writing"]
    /\ BufSame

\* writeString, lines 565-568: io.WriteString, Unlock and the error; a
\* failed write ends the operation and the producer
WriteDone(p) ==
    /\ th[p].pc = "writing"
    /\ LET kind == Head(th[p].plan)
           ok == sess.conn = "open"
           rec == [by |-> p, kind |-> kind,
                   text |-> IF kind = "line" THEN th[p].line ELSE <<>>]
           done == ~ok \/ Len(th[p].plan) = 1
       IN /\ sess' = [sess EXCEPT
                 !.out = IF ok THEN Append(@, rec) ELSE @,
                 !.wmu = IF @ = p THEN "none" ELSE @,
                 !.once = IF kind = "reserve" THEN "done" ELSE @,
                 !.statusErr = IF kind = "reserve" THEN ~ok ELSE @,
                 !.conn = IF done THEN ConnAfter(p, th[p], ~ok) ELSE @]
          /\ th' = [th EXCEPT ![p] =
                    IF done THEN Ended(p, @, ~ok)
                    ELSE [@ EXCEPT !.pc = "run", !.plan = Tail(@)]]
    /\ BufSame

\* the peer closes the channel or the connection breaks
RenderHangup ==
    /\ sess.conn = "open"
    /\ th["input"].pc # "exit"
    /\ sess' = [sess EXCEPT !.conn = "closed"]
    /\ UNCHANGED th
    /\ BufSame

RenderNext ==
    \/ RenderKey
    \/ RenderReadFails
    \/ RelayTakes
    \/ RenderHangup
    \/ \E p \in Producers :
         \/ StepSnap(p)
         \/ StepEnsure(p)
         \/ WriteLock(p)
         \/ WriteDone(p)

RenderSpec == RenderInit /\ [][RenderNext]_vars

-----------------------------------------------------------------------------
\* the places of the writes of one kind in the output
WritesOf(kind) == {i \in 1..Len(sess.out) : sess.out[i].kind = kind}

\* producer p has come through ensureStatusLine without an error in the
\* renderPrompt call in progress
PastEnsure(p) ==
    /\ th[p].pc \in {"run", "writing"}
    /\ th[p].plan # <<>>
    /\ Head(th[p].plan) \in {"status", "line"}

C21_State ==
    /\ Cardinality(WritesOf("reserve")) <= 1
    /\ \A i \in WritesOf("status") : \E j \in WritesOf("reserve") : j < i
    /\ \A p \in Producers :
           PastEnsure(p) => Cardinality(WritesOf("reserve")) = 1
    /\ sess.once = "done" =>
           Cardinality(WritesOf("reserve")) = IF sess.statusErr THEN 0 ELSE 1

C21_Step ==
    \A i \in WritesOf("reserve") :
        /\ i \in 1..Len(sess'.out)
        /\ sess'.out[i] = sess.out[i]
        /\ Cardinality({j \in 1..Len(sess'.out) :
                            sess'.out[j].kind = "reserve"}) = 1

\* C21: the status-line reservation is written once per session, however
\* many UpdatePrompt calls the input loop and the relay make and however
\* they interleave: a call that gets past ensureStatusLine finds it written,
\* no later call writes it again, and it comes before every status-region
\* rewrite.
C21_ReservedOnce == []C21_State /\ [][C21_Step]_vars

\* the input loop and the relay have both rewritten the status region, and
\* the reservation is in the output once
C21_Witness ==
    /\ \E i, j \in WritesOf("status") :
           sess.out[i].by = "input" /\ sess.out[j].by = "relay"
    /\ Cardinality(WritesOf("reserve")) = 1

-----------------------------------------------------------------------------
\* the producers inside io.WriteString
Writing == {p \in Producers : th[p].pc = "writing"}

C22_State ==
    /\ Cardinality(Writing) <= 1
    /\ \A p \in Producers : p \in Writing <=> sess.wmu = p

C22_Step ==
    /\ Len(sess'.out) \in {Len(sess.out), Len(sess.out) + 1}
    /\ SubSeq(sess'.out, 1, Len(sess.out)) = sess.out
    /\ Len(sess'.out) > Len(sess.out) =>
           LET w == sess'.out[Len(sess'.out)] IN
           /\ Writing = {w.by}
           /\ th'[w.by].pc # "writing"
           /\ w.kind = Head(th[w.by].plan)

\* C22: the writes to a session's connection are serialized by the writer's
\* mutex: at most one of the input loop and the relay is inside a write at
\* any time, and each write reaches the output whole, after the writes
\* before it and before the next one starts.
C22_WritesSerialized == []C22_State /\ [][C22_Step]_vars

\* the relay is inside a write while the input loop waits for the mutex with
\* a write of its own
C22_Witness ==
    /\ th["relay"].pc = "writing"
    /\ th["input"].pc = "run"
    /\ Head(th["input"].plan) \in Writes
    /\ sess.out # <<>>

-----------------------------------------------------------------------------
\* a write of the input loop or of the setup has failed
MainWriteFailed(s) == sess[s].exit \in {"writeerr", "setup"}

\* the relay has ended on a connection that takes no writes
RelayOnDeadConn(s) == At(Relay(s), "exit") /\ ~Writable(s)

\* the relay fails to write in this step
RelayWriteFails(s) ==
    /\ At(Relay(s), "relay") /\ ~Writable(s)
    /\ th'[Relay(s)] # th[Relay(s)]
    /\ sess[s].client # 0 /\ heap[sess[s].client].send # <<>>

OnTheWayOut ==
    {"syserr", "cleanup", "cl_close", "cl_wait", "returned", "done",
     "rm_close", "sys_rlock", "deliver", "returning"}

C23_State ==
    \A s \in Sessions :
        MainWriteFailed(s) =>
            /\ th[Main(s)].pc \in OnTheWayOut
            /\ th[Main(s)].op \in {"none", "RemoveClient"}

C23_Step ==
    \A s \in Sessions :
        /\ (MainWriteFailed(s)' /\ ~MainWriteFailed(s)) =>
               /\ ~Writable(s)
               /\ th'[Main(s)].pc = "syserr"
               /\ sess'[s].wrote = sess[s].wrote
               /\ sess'[s].nread = sess[s].nread
        /\ MainWriteFailed(s) =>
               /\ sess'[s].nread = sess[s].nread
               /\ sess'[s].exit = sess[s].exit
        /\ RelayWriteFails(s) =>
               /\ th'[Relay(s)].pc = "exit"
               /\ sess'[s].wrote = sess[s].wrote

C23_Ends ==
    \A s \in Sessions :
        (MainWriteFailed(s) \/ RelayOnDeadConn(s)) ~>
            (At(Main(s), "done") /\ sess[s].client \notin Range(clients))

\* C23: a failed write ends what was being rendered: in the input loop the
\* error goes up through readLoop to run, no further character is read, and
\* in the relay the loop returns; either way the session reaches
\* cleanupSession, its client is removed from the room and HandleSession
\* returns.
C23_WriteFailureEndsSession == []C23_State /\ [][C23_Step]_vars /\ C23_Ends

\* a registered session whose prompt could not be written has returned; its
\* client is out of the room
C23_Witness ==
    \E s \in Sessions :
        /\ sess[s].exit = "writeerr"
        /\ sess[s].nread > 0
        /\ At(Main(s), "done")
        /\ sess[s].client # 0
        /\ sess[s].client \notin Range(clients)
        /\ At(Relay(s), "exit")

-----------------------------------------------------------------------------
Affirmed == {"shell", "pty-req", "env", "window-change", "signal"}

\* the requests for a shell among the first n answered
ShellsIn(q, n) == {i \in 1..n : q[i].type = "shell"}

C24_State ==
    \A s \in Sessions :
        LET q == sess[s].replies IN
        /\ Len(q) = sess[s].nreq
        /\ \A i \in 1..Len(q) :
               /\ q[i].ok <=> q[i].type \in Affirmed
               /\ q[i].active <=> ShellsIn(q, i - 1) # {}
        /\ sess[s].shell <=> ShellsIn(q, Len(q)) # {}
        /\ At(Main(s), "await") => ~sess[s].shell
        /\ ~sess[s].shell => th[Pump(s)].pc = "off" /\ sess[s].client = 0
        /\ sess[s].shell => th[Pump(s)].pc \in {"pump", "exit"}

C24_Step ==
    \A s \in Sessions :
        /\ sess'[s].nreq # sess[s].nreq =>
               /\ sess'[s].nreq = sess[s].nreq + 1
               /\ Len(sess'[s].replies) = Len(sess[s].replies) + 1
               /\ SubSeq(sess'[s].replies, 1, Len(sess[s].replies))
                      = sess[s].replies
        /\ sess'[s].nreq = sess[s].nreq => sess'[s].replies = sess[s].replies
        /\ (~sess[s].shell /\ sess'[s].shell) =>
               /\ At(Main(s), "await") /\ th'[Main(s)].pc = "add"
               /\ th'[Pump(s)].pc = "pump"
        /\ (At(Main(s), "await") /\ th'[Main(s)].pc = "add") =>
               sess'[s].replies[Len(sess'[s].replies)].type = "shell"
        /\ sess[s].shell => sess'[s].shell

\* C24: every request the session takes from its request stream, while it
\* waits for a shell and afterwards, is answered once: yes for shell,
\* pty-req, env, window-change and signal, no for any other type; the
\* session becomes active with the first shell request and with nothing
\* else.
C24_RequestsAnswered == []C24_State /\ [][C24_Step]_vars

\* the first request started the shell, and the pump refused the next one,
\* which was of no known type
C24_Witness ==
    \E s \in Sessions :
        LET q == sess[s].replies IN
        /\ Len(q) = 2
        /\ q[1].type = "shell" /\ q[1].ok /\ ~q[1].active
        /\ q[2].type = "exec" /\ ~q[2].ok /\ q[2].active
        /\ At(Pump(s), "pump")

-----------------------------------------------------------------------------
\* the relay of session s takes a message from its client's queue in this
\* step (nobody else receives from that queue)
RelayReceives(s) ==
    /\ sess[s].client # 0
    /\ Len(heap'[sess[s].client].send) < Len(heap[sess[s].client].send)

\* the relay of session s ends in this step
RelayStops(s) == At(Relay(s), "relay") /\ th'[Relay(s)].pc = "exit"

C25_State ==
    \A s \in Sessions :
        LET c == sess[s].client IN
        /\ (At(Relay(s), "exit") /\ heap[c].send # <<>>) => ~Writable(s)
        /\ (At(Relay(s), "exit") /\ Writable(s)) =>
               heap[c].closed /\ heap[c].send = <<>>
        /\ At(Relay(s), "relay") => c # 0

C25_Step ==
    \A s \in Sessions :
        LET c == sess[s].client IN
        /\ RelayReceives(s) =>
               /\ At(Relay(s), "relay")
               /\ heap[c].send = <<heap[c].send[1]>> \o heap'[c].send
               /\ IF Writable(s)
                  THEN /\ sess'[s].shown = heap[c].send[1]
                       /\ {"message", "status", "prompt"} \subseteq sess'[s].wrote
                       /\ th'[Relay(s)].pc = "relay"
                  ELSE /\ sess'[s].shown = sess[s].shown
                       /\ th'[Relay(s)].pc = "exit"
        /\ sess'[s].shown # sess[s].shown => RelayReceives(s)
        /\ RelayStops(s) =>
               \/ heap[c].closed /\ heap[c].send = <<>>
               \/ ~Writable(s)

\* C25: the relay takes the messages of its client's queue oldest first and
\* renders each one it takes, followed by the prompt, as long as the writes
\* succeed; it ends only when the queue is closed and empty or a write has
\* failed, so what is still queued when the client is removed is rendered
\* before the relay ends unless a write fails.
C25_RelayRendersInOrder == []C25_State /\ [][C25_Step]_vars

\* the relay has rendered the guest's joined notice, which came after the
\* session's own in its queue, and has ended on the closed and empty queue
\* of the removed client while the connection still took writes
C25_Witness ==
    \E s \in Sessions :
        /\ At(Relay(s), "exit")
        /\ Writable(s)
        /\ heap[sess[s].client].closed
        /\ IsJoined(sess[s].shown)
        /\ sess[s].shown.text # heap[sess[s].client].Username \o <<" joined the chat">>

-----------------------------------------------------------------------------
\* no producer is inside a rendering operation
NobodyRenders == \A p \in Producers : th[p].pc \in {"idle", "exit"}

\* the input line the terminal shows: the text of the latest line write
LineShown ==
    LET last == CHOOSE i \in WritesOf("line") :
                    \A j \in WritesOf("line") : j <= i
    IN sess.out[last].text

\* C26: whenever neither the input loop nor the relay is inside a rendering
\* operation (and every write so far has succeeded), the input line written
\* last shows the current content of the line buffer.
C26_PromptShowsBuffer ==
    (NobodyRenders /\ sess.conn = "open" /\ WritesOf("line") # {})
        => LineShown = sess.data

-----------------------------------------------------------------------------
\* the write of producer p that follows place i in the output
NextBy(p, i) ==
    CHOOSE j \in (i + 1)..Len(sess.out) :
        /\ sess.out[j].by = p
        /\ \A k \in (i + 1)..(j - 1) : sess.out[k].by # p

HasNextBy(p, i) == \E j \in (i + 1)..Len(sess.out) : sess.out[j].by = p

\* C27 as stated: the status-region rewrite and the input-line rewrite of
\* one UpdatePrompt call are next to each other in the output.
C27_PromptWritesAdjacent ==
    \A i \in WritesOf("status") :
        HasNextBy(sess.out[i].by, i) => NextBy(sess.out[i].by, i) = i + 1

C27_State ==
    \A i \in WritesOf("status") :
        LET p == sess.out[i].by IN
        /\ HasNextBy(p, i) => sess.out[NextBy(p, i)].kind = "line"
        /\ (~HasNextBy(p, i) /\ sess.conn = "open") =>
               /\ th[p].pc \in {"run", "writing"}
               /\ th[p].plan = <<"line">>
        /\ i > 1 /\ sess.out[i - 1].by = p =>
               sess.out[i - 1].kind \in {"reserve", "message", "ack", "line"}

\* C27: of the writes of one UpdatePrompt call each is whole and they are in
\* order, the status-region rewrite before the input-line rewrite, with no
\* other write of the same producer between them; writes of the other
\* producer (a message, an acknowledgment, the writes of its own prompt
\* update) may come between the two.
C27_PromptWritesInOrder == []C27_State /\ [][C22_Step]_vars

\* the relay's message came between the status rewrite and the input-line
\* rewrite of one UpdatePrompt call of the input loop
C27_Witness ==
    \E i \in WritesOf("status") :
        /\ sess.out[i].by = "input"
        /\ Len(sess.out) >= i + 2
        /\ sess.out[i + 1].by = "relay" /\ sess.out[i + 1].kind = "message"
        /\ sess.out[i + 2].by = "input" /\ sess.out[i + 2].kind = "line"

-----------------------------------------------------------------------------
(* One session's submitted lines, watched by the guest *)

\* the session of SessInit, with a peer that types the keys of OrderKeys
OrderInit ==
    /\ sequence = 0
    /\ clients = <<>>
    /\ heap = <<>>
    /\ colors = ""
    /\ readers = {}
    /\ panicked = "none"
    /\ th = [t \in Threads |->
                 Fresh(IF t[2] = "main" THEN "await"
                       ELSE IF t = Guest THEN "idle" ELSE "off")]
    /\ calls = 0
    /\ mode = "order"
    /\ sess = [s \in Sessions |-> NewSession]

\* the guest's AddClient runs from call to return while the session's
\* goroutines stand still, and starts when no fan-out is under way
OrderNext ==
    /\ Running
    /\ IF ~Idle(Guest)
       THEN RoomStep(Guest) /\ UNCHANGED <<calls, mode, sess>>
       ELSE \/ \E s \in Sessions :
                 \/ AwaitRequest(s)
                 \/ AwaitShellEnded(s)
                 \/ SetupAddClient(s)
                 \/ ClearScreen(s)
                 \/ ClearScreenFails(s)
                 \/ SendGreeting(s)
                 \/ GreetingFails(s)
                 \/ PrintSystemError(s)
                 \/ ReadRune(s)
                 \/ ProcessNewline(s)
                 \/ ProcessEdit(s)
                 \/ HandleEOF(s)
                 \/ ReadError(s)
                 \/ Echo(s)
                 \/ RunReturns(s)
                 \/ RelayMessage(s)
                 \/ RelayEnds(s)
                 \/ PumpEnds(s)
                 \/ PeerHangup(s)
                 \/ CleanupEnter(Main(s), s)
                 \/ CleanupClose(Main(s), s)
                 \/ CleanupWait(Main(s), s)
            \/ (readers = {} /\ GuestJoins)
            \/ \E t \in Sessions \X Roles :
                 RoomStep(t) /\ UNCHANGED <<calls, mode, sess>>

OrderSpec == OrderInit /\ [][OrderNext]_vars

\* the chat messages in queue q that carry label l, as their texts
RECURSIVE TextsFrom(_, _)
TextsFrom(q, l) ==
    IF q = <<>> THEN <<>>
    ELSE IF Head(q).label = l THEN <<Head(q).text>> \o TextsFrom(Tail(q), l)
    ELSE TextsFrom(Tail(q), l)

\* a is b with some of its elements left out
RECURSIVE IsSubSeq(_, _)
IsSubSeq(a, b) ==
    IF a = <<>> THEN TRUE
    ELSE IF b = <<>> THEN FALSE
    ELSE IF Head(a) = Head(b) THEN IsSubSeq(Tail(a), Tail(b))
    ELSE IsSubSeq(a, Tail(b))

\* the recipients of the session's lines: every client but its own
Recipients(s) == {c \in Ptrs : c # sess[s].client}

\* C28: the chat messages of one session in a recipient's queue are lines
\* the session submitted, in the order it submitted them, possibly with
\* some of them missing.
C28_SubmissionOrderKept ==
    \A s \in Sessions :
        sess[s].client # 0 =>
            \A c \in Recipients(s) :
                IsSubSeq(TextsFrom(heap[c].send, Shown(heap[sess[s].client])),
                         sess[s].sent)

\* the guest's queue holds two different lines of the session, in the order
\* in which the session submitted them
C28_Witness ==
    \E s \in Sessions :
        /\ sess[s].client # 0
        /\ sess[s].sent = << <<"h">>, <<"i">> >>
        /\ \E c \in Recipients(s) :
             TextsFrom(heap[c].send, Shown(heap[sess[s].client]))
                 = << <<"h">>, <<"i">> >>

-----------------------------------------------------------------------------
\* what message m in a queue is to the session with client c: its joined
\* notice (1), one of its chat messages (2), its left notice (3), or
\* nothing of that session (0)
RankOf(m, c) ==
    IF IsJoined(m) /\ m.text = heap[c].Username \o <<" joined the chat">>
    THEN 1
    ELSE IF IsLeft(m) /\ m.text = heap[c].Username \o <<" left the chat">>
    THEN 3
    ELSE IF ~IsSystem(m) /\ m.label \in {Shown(heap[c]), heap[c].Username}
    THEN 2
    ELSE 0

\* C29: in the queue of every other client the joined notice of a session
\* comes before every chat message of that session and its left notice
\* after all of them, each notice at most once, and nothing of that session
\* follows its left notice.
C29_JoinedChatLeft ==
    \A s \in Sessions :
        sess[s].client # 0 =>
            \A c \in Recipients(s) :
                LET q == heap[c].send
                    k(i) == RankOf(q[i], sess[s].client)
                IN \A i, j \in DOMAIN q :
                       (i < j /\ k(i) # 0 /\ k(j) # 0) =>
                           /\ k(i) <= k(j)
                           /\ k(i) = k(j) => k(i) = 2

\* the guest has been sent the joined notice of the session, then a chat
\* message of the session, then its left notice
C29_Witness ==
    \E s \in Sessions :
        /\ sess[s].client # 0
        /\ \E c \in Recipients(s) :
             LET q == heap[c].send IN
             \E i, j, l \in DOMAIN q :
                 /\ i < j /\ j < l
                 /\ RankOf(q[i], sess[s].client) = 1
                 /\ RankOf(q[j], sess[s].client) = 2
                 /\ RankOf(q[l], sess[s].client) = 3

-----------------------------------------------------------------------------
(* Two sessions of one server: each peer sends one request and hangs up
   without typing *)

Pair == {"s1", "s2"}

PairInit ==
    /\ sequence = 0
    /\ clients = <<>>
    /\ heap = <<>>
    /\ colors = ""
    /\ readers = {}
    /\ panicked = "none"
    /\ th = [t \in Pair \X Roles |->
                 Fresh(IF t[2] = "main" THEN "await" ELSE "off")]
    /\ calls = 0
    /\ mode = "pair"
    /\ sess = [s \in Pair |-> NewSession]

PairNext ==
    /\ Running
    /\ \/ \E s \in Pair :
            \/ AwaitRequest(s)
            \/ AwaitShellEnded(s)
            \/ SetupAddClient(s)
            \/ ClearScreen(s)
            \/ ClearScreenFails(s)
            \/ SendGreeting(s)
            \/ GreetingFails(s)
            \/ PrintSystemError(s)
            \/ HandleEOF(s)
            \/ RunReturns(s)
            \/ RelayMessage(s)
            \/ RelayEnds(s)
            \/ PumpEnds(s)
            \/ PeerHangup(s)
            \/ CleanupEnter(Main(s), s)
            \/ CleanupClose(Main(s), s)
            \/ CleanupWait(Main(s), s)
       \/ \E t \in Pair \X Roles :
            RoomStep(t) /\ UNCHANGED <<calls, mode, sess>>

PairSpec == PairInit /\ [][PairNext]_vars

\* client c was allocated for session s: AddClient is returning it to
\* setup, or s.client holds it
Owns(s, c) == c # 0 /\ c \in {sess[s].client, th[Main(s)].client}

AllReturned == \A s \in DOMAIN sess : th[Main(s)].pc = "done"

\* C30: every registered client belongs to a session that has not finished
\* its cleanup; every client ever allocated belongs to exactly one session
\* and a session has at most one; and when HandleSession has returned for
\* every session the registry is empty and every queue created is closed.
C30_RegistryFollowsSessions ==
    /\ \A c \in Range(clients) :
           \E s \in DOMAIN sess : Owns(s, c) /\ sess[s].once # "done"
    /\ \A c \in Ptrs :
           Cardinality({s \in DOMAIN sess : Owns(s, c)}) = 1
    /\ \A s \in DOMAIN sess :
           Cardinality({c \in Ptrs : Owns(s, c)}) <= 1
    /\ AllReturned =>
           /\ clients = <<>>
           /\ \A c \in Ptrs : heap[c].closed

\* two sessions have registered a client each, and both have returned
C30_Witness ==
    /\ AllReturned
    /\ Len(heap) = 2
    /\ \A s \in DOMAIN sess : sess[s].client # 0
    /\ sess["s1"].client # sess["s2"].client

\* both sessions are registered at the same time
C30_BothRegistered == Cardinality(Range(clients)) = 2

TypeOK ==
    /\ \A c \in Ptrs : Len(heap[c].send) <= QueueCap
    /\ panicked = "none"

====
